---- MODULE Spec2Model ----
(***************************************************************************)
(* A model of the AIDEA -> PyNite translation layer                        *)
(* (src/aidea/aidea_to_pynite_translator.py, src/aidea/aidea_model.py)     *)
(* and of the results workflow (src/test_pynite_results_models.py,         *)
(* src/pynite_results_models.py).                                          *)
(*                                                                         *)
(* Conventions                                                             *)
(*  - A Python dict is a sequence of entries in insertion order; every     *)
(*    entity record carries its mapping key in the field "key".            *)
(*  - A Python str that the code indexes (restraint and fixity codes) is   *)
(*    a sequence of one-character strings; other strings are TLA+ strings. *)
(*  - A Python float is an exact rational [n, d] with d > 0 in lowest      *)
(*    terms. Float rounding is outside the model; coordinates are chosen   *)
(*    so that every member length is rational.                             *)
(*  - Optional[T] is [some, val]; None is [some |-> FALSE, ...].           *)
(*  - The solver (FEModel3D, ShearWall) is the call contract of section 6  *)
(*    of the specification: it records each registration call.  The field *)
(*    "by" of a recorded call is an annotation naming the source entity    *)
(*    whose translation made the call; the solver never reads it.          *)
(***************************************************************************)
EXTENDS Integers, Sequences, FiniteSets, TLC

VARIABLES
    arg,           \* the caller's arguments: the Model passed to translate_model
                   \* (the keyword arguments or the plate handle when a
                   \* constructor or a results function is taken on its own)
    aidea_model,   \* self.aidea_model  (Optional[Model])
    pynite_model,  \* self.pynite_model (Optional[FEModel3D]): [created, calls]
    shear_walls,   \* self.shear_walls  (dict wall_id -> ShearWall object)
    stdout,        \* the lines print() has written
    pc,            \* position inside translate_model or main
    exc,           \* the exception that ended the call ("" when none)
    ret,           \* the last analysis or result call: inputs, value, error
    results        \* the PyNiteResults object of the extraction workflow

vars == <<arg, aidea_model, pynite_model, shear_walls, stdout, pc, exc, ret, results>>

-----------------------------------------------------------------------------
(* Numbers *)

Abs(i) == IF i < 0 THEN -i ELSE i

RECURSIVE GCD(_, _)
GCD(a, b) == IF b = 0 THEN a ELSE GCD(b, a % b)

\* The rational n/d (d # 0) in lowest terms with a positive denominator.
Q(n, d) ==
    LET s == IF d < 0 THEN -1 ELSE 1
        g == GCD(Abs(n), Abs(d))
    IN  [n |-> (s * n) \div g, d |-> (s * d) \div g]

Z(i) == [n |-> i, d |-> 1]

RAdd(a, b) == Q(a.n * b.d + b.n * a.d, a.d * b.d)
RSub(a, b) == Q(a.n * b.d - b.n * a.d, a.d * b.d)
RMul(a, b) == Q(a.n * b.n, a.d * b.d)
RDiv(a, b) == Q(a.n * b.d, a.d * b.n)
RIsZero(a) == a.n = 0

ISqrt(k) == CHOOSE r \in 0..k : r * r = k

\* np.sqrt on a rational whose numerator and denominator are squares.
np_sqrt(a) == Q(ISqrt(a.n), ISqrt(a.d))

-----------------------------------------------------------------------------
(* Optional values and strings *)

None == [some |-> FALSE, val |-> 0]
Some(v) == [some |-> TRUE, val |-> v]

\* None for an Optional[str].
NoRef == [some |-> FALSE, val |-> ""]

Digit == <<"0", "1", "2", "3", "4", "5", "6", "7", "8", "9">>

\* str(i) for a Python int.
RECURSIVE str_int(_)
str_int(i) ==
    IF i < 0 THEN "-" \o str_int(-i)
    ELSE IF i < 10 THEN Digit[i + 1]
    ELSE str_int(i \div 10) \o Digit[(i % 10) + 1]

\* str(v) for a value of type int | str: [is_int, i, s].
IntRef(i) == [is_int |-> TRUE, i |-> i, s |-> ""]
StrRef(s) == [is_int |-> FALSE, i |-> 0, s |-> s]
str_ref(v) == IF v.is_int THEN str_int(v.i) ELSE v.s

\* str.upper() on one character, over the characters the inputs use.
upper(c) ==
    CASE c = "t" -> "T"
      [] c = "f" -> "F"
      [] c = "r" -> "R"
      [] OTHER -> c

-----------------------------------------------------------------------------
(* Dicts as sequences of entries *)

Keys(d) == {d[i].key : i \in 1..Len(d)}
KeySeq(d) == [i \in 1..Len(d) |-> d[i].key]
HasKey(d, k) == \E i \in 1..Len(d) : d[i].key = k
Get(d, k) == d[CHOOSE i \in 1..Len(d) : d[i].key = k]

\* d[k] = v
DictSet(d, k, v) ==
    IF HasKey(d, k)
    THEN [i \in 1..Len(d) |-> IF d[i].key = k THEN [key |-> k, val |-> v] ELSE d[i]]
    ELSE Append(d, [key |-> k, val |-> v])
UniqueKeys(d) == \A i, j \in 1..Len(d) : d[i].key = d[j].key => i = j

SeqToSet(q) == {q[i] : i \in 1..Len(q)}

\* {**a, **b} on dicts of [key, val] entries.
DictMerge(a, b) ==
    [i \in 1..Len(a) |-> IF HasKey(b, a[i].key) THEN Get(b, a[i].key) ELSE a[i]]
    \o SelectSeq(b, LAMBDA e : ~HasKey(a, e.key))

-----------------------------------------------------------------------------
(* The translator: each _translate_* method maps the source Model m to the   *)
(* outcome [calls, out, exc] of running it: the solver calls it made in      *)
(* order, the lines it printed, and the exception that stopped it ("" when   *)
(* it returned).  Calls made before an exception stay registered.            *)

NoOutcome == [calls |-> <<>>, out |-> <<>>, exc |-> ""]
Call(acc, c) == [acc EXCEPT !.calls = Append(@, c)]
Warn(acc, line) == [acc EXCEPT !.out = Append(@, line)]
Raise(acc, e) == [acc EXCEPT !.exc = e]

\* material.shear_modulus or (E / (2 * (1 + material.poissons_ratio)))
ShearModulusTruthy(material) ==
    material.shear_modulus.some /\ ~RIsZero(material.shear_modulus.val)

DerivedG(material) ==
    RDiv(material.elasticity_modulus,
         RMul(Z(2), RAdd(Z(1), material.poissons_ratio)))

RECURSIVE materials_loop(_, _, _)
materials_loop(ms, i, acc) ==
    IF i > Len(ms) THEN acc
    ELSE LET material == ms[i] IN
         IF ~ShearModulusTruthy(material)
            /\ RIsZero(RAdd(Z(1), material.poissons_ratio))
         THEN Raise(acc, "ZeroDivisionError")
         ELSE materials_loop(ms, i + 1, Call(acc,
                [op |-> "add_material", by |-> material.key,
                 name |-> material.key,
                 E |-> material.elasticity_modulus,
                 G |-> IF ShearModulusTruthy(material)
                       THEN material.shear_modulus.val
                       ELSE DerivedG(material),
                 nu |-> material.poissons_ratio,
                 rho |-> material.density,
                 fy |-> material.yield_strength]))

_translate_materials(m) == materials_loop(m.materials, 1, NoOutcome)

RECURSIVE sections_loop(_, _, _)
sections_loop(ss, i, acc) ==
    IF i > Len(ss) THEN acc
    ELSE LET section == ss[i] IN
         sections_loop(ss, i + 1, Call(acc,
            [op |-> "add_section", by |-> section.key,
             name |-> section.key,
             A |-> section.area, Iy |-> section.Iy, Iz |-> section.Iz,
             J |-> IF section.J.some /\ ~RIsZero(section.J.val)
                   THEN section.J.val ELSE Z(0)]))

_translate_sections(m) == sections_loop(m.sections, 1, NoOutcome)

RECURSIVE nodes_loop(_, _, _)
nodes_loop(ns, i, acc) ==
    IF i > Len(ns) THEN acc
    ELSE LET node == ns[i] IN
         nodes_loop(ns, i + 1, Call(acc,
            [op |-> "add_node", by |-> node.key,
             name |-> node.key, X |-> node.x, Y |-> node.y, Z |-> node.z]))

_translate_nodes(m) == nodes_loop(m.nodes, 1, NoOutcome)

\* restraint_code[k].upper() == 'T' for k = 0..5; indexing past the end of
\* the string raises IndexError.
RestraintRaises(restraint_code) == Len(restraint_code) < 6

\* Faulty variant: the comparison without .upper().
_parse_restraint_code_CaseSensitive(restraint_code) ==
    [DX |-> restraint_code[1] = "T",
     DY |-> restraint_code[2] = "T",
     DZ |-> restraint_code[3] = "T",
     RX |-> restraint_code[4] = "T",
     RY |-> restraint_code[5] = "T",
     RZ |-> restraint_code[6] = "T"]

_parse_restraint_code(restraint_code) ==
    [DX |-> upper(restraint_code[1]) = "T",
     DY |-> upper(restraint_code[2]) = "T",
     DZ |-> upper(restraint_code[3]) = "T",
     RX |-> upper(restraint_code[4]) = "T",
     RY |-> upper(restraint_code[5]) = "T",
     RZ |-> upper(restraint_code[6]) = "T"]

RECURSIVE supports_loop(_, _, _)
supports_loop(ss, i, acc) ==
    IF i > Len(ss) THEN acc
    ELSE LET support == ss[i] IN
         IF RestraintRaises(support.restraint_code)
         THEN Raise(acc, "IndexError")
         ELSE LET restraints == _parse_restraint_code(support.restraint_code) IN
              supports_loop(ss, i + 1, Call(acc,
                [op |-> "def_support", by |-> support.key,
                 node_name |-> str_int(support.node),
                 support_DX |-> restraints.DX,
                 support_DY |-> restraints.DY,
                 support_DZ |-> restraints.DZ,
                 support_RX |-> restraints.RX,
                 support_RY |-> restraints.RY,
                 support_RZ |-> restraints.RZ]))

_translate_supports(m) == supports_loop(m.supports, 1, NoOutcome)

\* Faulty variant: a short code is padded as fixed instead of yielding {}.
_parse_fixity_Padded(fixity, end) ==
    LET at(k) == IF k <= Len(fixity) THEN upper(fixity[k]) = "R" ELSE FALSE IN
    << [key |-> "Dx" \o end, val |-> at(1)],
       [key |-> "Dy" \o end, val |-> at(2)],
       [key |-> "Dz" \o end, val |-> at(3)],
       [key |-> "Rx" \o end, val |-> at(4)],
       [key |-> "Ry" \o end, val |-> at(5)],
       [key |-> "Rz" \o end, val |-> at(6)] >>

\* The release dict for one member end: six entries when the code has at
\* least 6 characters, none otherwise.
_parse_fixity(fixity, end) ==
    IF Len(fixity) >= 6
    THEN << [key |-> "Dx" \o end, val |-> upper(fixity[1]) = "R"],
            [key |-> "Dy" \o end, val |-> upper(fixity[2]) = "R"],
            [key |-> "Dz" \o end, val |-> upper(fixity[3]) = "R"],
            [key |-> "Rx" \o end, val |-> upper(fixity[4]) = "R"],
            [key |-> "Ry" \o end, val |-> upper(fixity[5]) = "R"],
            [key |-> "Rz" \o end, val |-> upper(fixity[6]) = "R"] >>
    ELSE <<>>

RECURSIVE members_loop(_, _, _, _)
members_loop(m, ms, i, acc) ==
    IF i > Len(ms) THEN acc
    ELSE LET member == ms[i] IN
         IF ~HasKey(m.sections, str_int(member.section_id))
         THEN Raise(acc, "KeyError")
         ELSE LET section == Get(m.sections, str_int(member.section_id))
                  releases_A == _parse_fixity(member.fixity_A, "i")
                  releases_B == _parse_fixity(member.fixity_B, "j")
              IN  members_loop(m, ms, i + 1,
                    Call(Call(acc,
                      [op |-> "add_member", by |-> member.key,
                       name |-> member.key,
                       i_node |-> str_int(member.node_A),
                       j_node |-> str_int(member.node_B),
                       material_name |-> str_int(section.material_id),
                       section_name |-> str_int(member.section_id),
                       rotation |-> member.rotation_angle]),
                      [op |-> "def_releases", by |-> member.key,
                       member_name |-> member.key,
                       releases |-> DictMerge(releases_A, releases_B)]))

_translate_members(m) == members_loop(m, m.members, 1, NoOutcome)

PlateWarning(plate_id, n) ==
    "Warning: Plate " \o plate_id \o " has " \o str_int(n)
    \o " nodes. Only 4 node plates are supported in this implementation."

\* Faulty variant: any plate with at least 4 nodes is taken as a quad.
IsQuad_AtLeast4(node_names) == Len(node_names) >= 4

\* if len(node_names) == 4
IsQuad(node_names) == Len(node_names) = 4

RECURSIVE plates_loop(_, _, _)
plates_loop(ps, i, acc) ==
    IF i > Len(ps) THEN acc
    ELSE LET plate == ps[i]
             node_names == [k \in 1..Len(plate.nodes) |-> str_int(plate.nodes[k])]
         IN  IF IsQuad(node_names)
             THEN plates_loop(ps, i + 1, Call(acc,
                    [op |-> "add_quad", by |-> plate.key,
                     name |-> plate.key,
                     i_node |-> node_names[1], j_node |-> node_names[2],
                     m_node |-> node_names[3], n_node |-> node_names[4],
                     t |-> plate.thickness,
                     material_name |-> str_int(plate.material_id)]))
             ELSE plates_loop(ps, i + 1,
                    Warn(acc, PlateWarning(plate.key, Len(node_names))))

_translate_plates(m) == plates_loop(m.plates, 1, NoOutcome)

\* The nodal loads of one point load: one per nonzero component, in x, y, z
\* order; the direction tag is a force for type 'n' and a moment for 'm'.
NodeTruthy(point_load) == point_load.node.some /\ point_load.node.val # ""

\* Faulty variant: the moment branch reuses the force tags.
NodeLoadDirections_ForceOnly(type) ==
    IF type \in {"n", "m"} THEN <<"FX", "FY", "FZ">> ELSE <<>>

NodeLoadDirections(type) ==
    IF type = "n" THEN <<"FX", "FY", "FZ">>
    ELSE IF type = "m" THEN <<"MX", "MY", "MZ">>
    ELSE <<>>

NodeLoadCall(point_load, direction, P) ==
    [op |-> "add_node_load", by |-> point_load.key,
     node_name |-> point_load.node.val,
     direction |-> direction, P |-> P, case |-> point_load.load_group]

PointLoadCalls(point_load) ==
    LET dirs == NodeLoadDirections(point_load.type) IN
    IF ~NodeTruthy(point_load) \/ dirs = <<>> THEN <<>>
    ELSE (IF ~RIsZero(point_load.x_mag)
          THEN <<NodeLoadCall(point_load, dirs[1], point_load.x_mag)>> ELSE <<>>)
      \o (IF ~RIsZero(point_load.y_mag)
          THEN <<NodeLoadCall(point_load, dirs[2], point_load.y_mag)>> ELSE <<>>)
      \o (IF ~RIsZero(point_load.z_mag)
          THEN <<NodeLoadCall(point_load, dirs[3], point_load.z_mag)>> ELSE <<>>)

RECURSIVE point_loads_loop(_, _, _)
point_loads_loop(ls, i, acc) ==
    IF i > Len(ls) THEN acc
    ELSE point_loads_loop(ls, i + 1,
            [acc EXCEPT !.calls = @ \o PointLoadCalls(ls[i])])

\* Member lookup of a distributed load: by key, then by a scan over the
\* members comparing each key with the same name.
MemberFound(m, member_name) ==
    \/ HasKey(m.members, member_name)
    \/ \E i \in 1..Len(m.members) : m.members[i].key = member_name

DistLoadWarning(member_name, load_id) ==
    "Warning: Could not find member " \o member_name
    \o " for distributed load " \o load_id

Sq(a) == RMul(a, a)

\* Faulty variant: the length in plan, without the z term.
MemberLength_Plan(node_A, node_B) ==
    np_sqrt(RAdd(Sq(RSub(node_B.x, node_A.x)), Sq(RSub(node_B.y, node_A.y))))

\* np.sqrt((B.x - A.x)**2 + (B.y - A.y)**2 + (B.z - A.z)**2)
MemberLength(node_A, node_B) ==
    np_sqrt(RAdd(RAdd(Sq(RSub(node_B.x, node_A.x)),
                      Sq(RSub(node_B.y, node_A.y))),
                 Sq(RSub(node_B.z, node_A.z))))

\* Faulty variant: the axis frame is ignored and the global tag is used.
DistLoadCall_AlwaysGlobal(dist_load, member_name, local, global, w1, w2, x1, x2) ==
    [op |-> "add_member_dist_load", by |-> dist_load.key,
     member_name |-> member_name, direction |-> global,
     w1 |-> w1, w2 |-> w2, x1 |-> x1, x2 |-> x2,
     case |-> dist_load.load_group]

DistLoadCall(dist_load, member_name, local, global, w1, w2, x1, x2) ==
    [op |-> "add_member_dist_load", by |-> dist_load.key,
     member_name |-> member_name,
     direction |-> IF dist_load.axes = "local" THEN local ELSE global,
     w1 |-> w1, w2 |-> w2, x1 |-> x1, x2 |-> x2,
     case |-> dist_load.load_group]

DistLoadCalls(dist_load, member_name, length) ==
    LET x1 == RDiv(RMul(length, dist_load.position_A), Z(100))
        x2 == RDiv(RMul(length, dist_load.position_B), Z(100))
    IN  (IF ~RIsZero(dist_load.x_mag_A) \/ ~RIsZero(dist_load.x_mag_B)
         THEN <<DistLoadCall(dist_load, member_name, "Fx", "FX",
                             dist_load.x_mag_A, dist_load.x_mag_B, x1, x2)>>
         ELSE <<>>)
     \o (IF ~RIsZero(dist_load.y_mag_A) \/ ~RIsZero(dist_load.y_mag_B)
         THEN <<DistLoadCall(dist_load, member_name, "Fy", "FY",
                             dist_load.y_mag_A, dist_load.y_mag_B, x1, x2)>>
         ELSE <<>>)
     \o (IF ~RIsZero(dist_load.z_mag_A) \/ ~RIsZero(dist_load.z_mag_B)
         THEN <<DistLoadCall(dist_load, member_name, "Fz", "FZ",
                             dist_load.z_mag_A, dist_load.z_mag_B, x1, x2)>>
         ELSE <<>>)

\* Faulty variant: the member is looked up without the membership test, so an
\* unknown member raises KeyError.
RECURSIVE dist_loads_loop_Unguarded(_, _, _, _)
dist_loads_loop_Unguarded(m, ls, i, acc) ==
    IF i > Len(ls) THEN acc
    ELSE LET dist_load == ls[i]
             member_name == str_ref(dist_load.member)
         IN  IF ~HasKey(m.members, member_name)
             THEN Raise(acc, "KeyError")
             ELSE LET member == Get(m.members, member_name)
                      node_A == Get(m.nodes, str_int(member.node_A))
                      node_B == Get(m.nodes, str_int(member.node_B))
                  IN  dist_loads_loop_Unguarded(m, ls, i + 1,
                        [acc EXCEPT !.calls = @ \o DistLoadCalls(
                           dist_load, member_name,
                           MemberLength(node_A, node_B))])

RECURSIVE dist_loads_loop(_, _, _, _)
dist_loads_loop(m, ls, i, acc) ==
    IF i > Len(ls) THEN acc
    ELSE LET dist_load == ls[i]
             member_name == str_ref(dist_load.member)
         IN  IF ~MemberFound(m, member_name)
             THEN dist_loads_loop(m, ls, i + 1,
                    Warn(acc, DistLoadWarning(member_name, dist_load.key)))
             ELSE LET member == Get(m.members, member_name) IN
                  IF ~HasKey(m.nodes, str_int(member.node_A))
                     \/ ~HasKey(m.nodes, str_int(member.node_B))
                  THEN Raise(acc, "KeyError")
                  ELSE LET node_A == Get(m.nodes, str_int(member.node_A))
                           node_B == Get(m.nodes, str_int(member.node_B))
                       IN  dist_loads_loop(m, ls, i + 1,
                             [acc EXCEPT !.calls = @ \o DistLoadCalls(
                                dist_load, member_name,
                                MemberLength(node_A, node_B))])

\* Faulty variant: plate_id taken as a 0-based position.
PlateName_ZeroBased(m, plate_id_to_find) ==
    IF 0 <= plate_id_to_find /\ plate_id_to_find < Len(m.plates)
    THEN [some |-> TRUE, val |-> m.plates[plate_id_to_find + 1].key]
    ELSE NoRef

\* plate_name: plate_id is a 1-based position in list(plates.keys()); None
\* when it is out of range.
PlateName(m, plate_id_to_find) ==
    IF 1 <= plate_id_to_find /\ plate_id_to_find <= Len(m.plates)
    THEN [some |-> TRUE, val |-> m.plates[plate_id_to_find].key]
    ELSE NoRef

\* if plate_name: a name that is None or empty is not used.
PlateNameTruthy(plate_name) == plate_name.some /\ plate_name.val # ""

PressureWarning(load_id, plate_id_to_find) ==
    "Warning: Could not find plate for pressure load " \o load_id
    \o " with plate_id " \o str_int(plate_id_to_find)

RECURSIVE area_loads_loop(_, _, _, _)
area_loads_loop(m, ls, i, acc) ==
    IF i > Len(ls) THEN acc
    ELSE LET pressure_load == ls[i]
             plate_name == PlateName(m, pressure_load.plate_id)
         IN
         IF PlateNameTruthy(plate_name)
         THEN IF ~RIsZero(pressure_load.z_mag)
              THEN area_loads_loop(m, ls, i + 1, Call(acc,
                     [op |-> "add_quad_surface_pressure",
                      by |-> pressure_load.key,
                      quad_name |-> plate_name.val,
                      pressure |-> pressure_load.z_mag,
                      case |-> pressure_load.load_group]))
              ELSE area_loads_loop(m, ls, i + 1, acc)
         ELSE area_loads_loop(m, ls, i + 1,
                Warn(acc, PressureWarning(pressure_load.key,
                                          pressure_load.plate_id)))

SelfWeightCall(self_weight, direction, factor) ==
    [op |-> "add_member_self_weight", by |-> self_weight.key,
     global_direction |-> direction, factor |-> factor,
     case |-> self_weight.load_group]

\* Faulty variant: the y and z branches test the x multiplier.
SelfWeightCalls_TestX(self_weight) ==
       (IF ~RIsZero(self_weight.x)
        THEN <<SelfWeightCall(self_weight, "FX", self_weight.x)>> ELSE <<>>)
    \o (IF ~RIsZero(self_weight.x)
        THEN <<SelfWeightCall(self_weight, "FY", self_weight.y)>> ELSE <<>>)
    \o (IF ~RIsZero(self_weight.x)
        THEN <<SelfWeightCall(self_weight, "FZ", self_weight.z)>> ELSE <<>>)

SelfWeightCalls(self_weight) ==
       (IF ~RIsZero(self_weight.x)
        THEN <<SelfWeightCall(self_weight, "FX", self_weight.x)>> ELSE <<>>)
    \o (IF ~RIsZero(self_weight.y)
        THEN <<SelfWeightCall(self_weight, "FY", self_weight.y)>> ELSE <<>>)
    \o (IF ~RIsZero(self_weight.z)
        THEN <<SelfWeightCall(self_weight, "FZ", self_weight.z)>> ELSE <<>>)

RECURSIVE self_weight_loop(_, _, _)
self_weight_loop(ls, i, acc) ==
    IF i > Len(ls) THEN acc
    ELSE self_weight_loop(ls, i + 1,
            [acc EXCEPT !.calls = @ \o SelfWeightCalls(ls[i])])

\* Point loads, then distributed loads, then pressure loads, then self-weight;
\* an exception in one loop skips the loops after it.
_translate_loads(m) ==
    LET a1 == point_loads_loop(m.point_loads, 1, NoOutcome)
        a2 == dist_loads_loop(m, m.distributed_loads, 1, a1)
    IN  IF a2.exc # "" THEN a2
        ELSE self_weight_loop(m.self_weight, 1,
                area_loads_loop(m, m.area_loads, 1, a2))

\* load_combo.model_dump(): the declared fields, then the extra fields in the
\* order they were supplied.
model_dump(load_combo) ==
    << [key |-> "name", val |-> load_combo.name],
       [key |-> "criteria", val |-> load_combo.criteria] >>
    \o load_combo.extra

\* Faulty variant: every dumped field is taken as a factor.
Factors_Unfiltered(load_combo) == model_dump(load_combo)

\* The objects one pass of the loop of _translate_load_combinations works
\* with: the LoadCombination of the Model (the fields it stores), the dict
\* combo_data that model_dump() built from it, and the new dict factors.
CombinationObjects(load_combo) ==
    [load_combo |-> model_dump(load_combo),
     combo_data |-> model_dump(load_combo),
     factors |-> <<>>]

\* del d[k]
DictDel(d, k) == SelectSeq(d, LAMBDA e : e.key # k)

\* Faulty variant: no copy is taken; name and criteria are deleted from the
\* combination's own fields and what is left is handed over as the factors.
RECURSIVE factors_loop_InPlace(_, _)
factors_loop_InPlace(objects, i) ==
    IF i > Len(objects.combo_data) THEN objects
    ELSE LET attr_name == objects.combo_data[i].key
             kept == IF attr_name \in {"name", "criteria"}
                     THEN DictDel(objects.load_combo, attr_name)
                     ELSE objects.load_combo
         IN  factors_loop_InPlace(
                [objects EXCEPT !.load_combo = kept, !.factors = kept], i + 1)

\* for attr_name, attr_value in combo_data.items(): every item but name and
\* criteria is assigned into factors; nothing else is written.
RECURSIVE factors_loop(_, _)
factors_loop(objects, i) ==
    IF i > Len(objects.combo_data) THEN objects
    ELSE LET attr_name == objects.combo_data[i].key
             attr_value == objects.combo_data[i].val
         IN  factors_loop(
                IF attr_name \notin {"name", "criteria"}
                THEN [objects EXCEPT !.factors = DictSet(@, attr_name, attr_value)]
                ELSE objects,
                i + 1)

Factors(load_combo) == factors_loop(CombinationObjects(load_combo), 1).factors

\* The LoadCombination of the Model once the loop has passed over it: the
\* entity itself when its fields are what they were, and otherwise the
\* fields it is left with.
LoadCombinationAfter(load_combo) ==
    LET fields == factors_loop(CombinationObjects(load_combo), 1).load_combo
    IN  IF fields = model_dump(load_combo) THEN load_combo
        ELSE [key |-> load_combo.key, fields |-> fields]

\* The caller's Model once _translate_load_combinations has run.
LoadCombinationsAfter(m) ==
    [m EXCEPT !.load_combinations =
        [i \in 1..Len(@) |-> LoadCombinationAfter(@[i])]]

RECURSIVE load_combinations_loop(_, _, _)
load_combinations_loop(cs, i, acc) ==
    IF i > Len(cs) THEN acc
    ELSE load_combinations_loop(cs, i + 1, Call(acc,
            [op |-> "add_load_combo", by |-> cs[i].key,
             name |-> cs[i].key, factors |-> Factors(cs[i])]))

_translate_load_combinations(m) ==
    load_combinations_loop(m.load_combinations, 1, NoOutcome)

\* The calls on one new ShearWall object, item by item in listed order.
WallMaterialCalls(ms) ==
    [i \in 1..Len(ms) |->
        [op |-> "add_material", name |-> ms[i].name,
         E |-> ms[i].elasticity_modulus, G |-> ms[i].shear_modulus,
         nu |-> ms[i].poissons_ratio, rho |-> ms[i].density,
         t |-> ms[i].thickness,
         x_start |-> ms[i].x_start, x_end |-> ms[i].x_end,
         y_start |-> ms[i].y_start, y_end |-> ms[i].y_end]]

WallOpeningCalls(os) ==
    [i \in 1..Len(os) |->
        [op |-> "add_opening", name |-> os[i].name,
         x_start |-> os[i].x_start, y_start |-> os[i].y_start,
         width |-> os[i].width, height |-> os[i].height,
         tie |-> os[i].tie_stiffness]]

WallFlangeCalls(fs) ==
    [i \in 1..Len(fs) |->
        [op |-> "add_flange", thickness |-> fs[i].thickness,
         width |-> fs[i].width, x |-> fs[i].x_position,
         y_start |-> fs[i].y_start, y_end |-> fs[i].y_end,
         material |-> fs[i].material_name, side |-> fs[i].side]]

WallSupportCalls(ss) ==
    [i \in 1..Len(ss) |->
        [op |-> "add_support", elevation |-> ss[i].elevation,
         x_start |-> ss[i].x_start, x_end |-> ss[i].x_end]]

WallStoryCalls(ss) ==
    [i \in 1..Len(ss) |->
        [op |-> "add_story", story_name |-> ss[i].story_name,
         elevation |-> ss[i].elevation,
         x_start |-> ss[i].x_start, x_end |-> ss[i].x_end]]

\* A dispatch that ignores load_type and applies every load as a story shear.
WallLoadCalls_AllShear(ls) ==
    [i \in 1..Len(ls) |->
        [op |-> "add_shear", story_name |-> ls[i].story_name,
         force |-> ls[i].force_magnitude, case |-> ls[i].load_group]]

RECURSIVE WallLoadCalls(_)
WallLoadCalls(ls) ==
    IF ls = <<>> THEN <<>>
    ELSE LET load == Head(ls) IN
         (IF load.load_type = "shear"
          THEN << [op |-> "add_shear", story_name |-> load.story_name,
                   force |-> load.force_magnitude, case |-> load.load_group] >>
          ELSE IF load.load_type = "axial"
          THEN << [op |-> "add_axial", story_name |-> load.story_name,
                   force |-> load.force_magnitude, case |-> load.load_group] >>
          ELSE <<>>)
         \o WallLoadCalls(Tail(ls))

PyniteWall(aidea_wall) ==
    [L |-> aidea_wall.length,
     H |-> aidea_wall.height,
     mesh_size |-> aidea_wall.mesh_size,
     ky_mod |-> aidea_wall.ky_modification_factor,
     calls |-> WallMaterialCalls(aidea_wall.materials)
               \o WallOpeningCalls(aidea_wall.openings)
               \o WallFlangeCalls(aidea_wall.flanges)
               \o WallSupportCalls(aidea_wall.supports)
               \o WallStoryCalls(aidea_wall.stories)
               \o WallLoadCalls(aidea_wall.loads)]

\* d[k] = v on a dict of [key, val] entries: an existing key keeps its place.
\* self.shear_walls after the loop over m.shear_walls, starting from walls.
RECURSIVE _translate_shear_walls(_, _, _)
_translate_shear_walls(ws, i, walls) ==
    IF i > Len(ws) THEN walls
    ELSE _translate_shear_walls(ws, i + 1,
            DictSet(walls, ws[i].key, PyniteWall(ws[i])))

-----------------------------------------------------------------------------
(* The source schema (src/aidea/aidea_model.py): the fields the translator   *)
(* reads, plus the mapping key.                                              *)

Node(key, x, y, z) == [key |-> key, x |-> x, y |-> y, z |-> z]

Material(key, E, G, rho, nu, fy) ==
    [key |-> key, elasticity_modulus |-> E, shear_modulus |-> G,
     density |-> rho, poissons_ratio |-> nu, yield_strength |-> fy]

Section(key, area, Iz, Iy, J, material_id) ==
    [key |-> key, area |-> area, Iz |-> Iz, Iy |-> Iy, J |-> J,
     material_id |-> material_id]

Member(key, node_A, node_B, section_id, rotation_angle, fixity_A, fixity_B) ==
    [key |-> key, node_A |-> node_A, node_B |-> node_B,
     section_id |-> section_id, rotation_angle |-> rotation_angle,
     fixity_A |-> fixity_A, fixity_B |-> fixity_B]

Plate(key, nodes, material_id, thickness) ==
    [key |-> key, nodes |-> nodes, material_id |-> material_id,
     thickness |-> thickness]

Support(key, node, restraint_code) ==
    [key |-> key, node |-> node, restraint_code |-> restraint_code]

PointLoad(key, load_group, type, node, member, x_mag, y_mag, z_mag) ==
    [key |-> key, load_group |-> load_group, type |-> type, node |-> node,
     member |-> member, x_mag |-> x_mag, y_mag |-> y_mag, z_mag |-> z_mag]

DistributedLoad(key, load_group, axes, member, x_mag_A, y_mag_A, z_mag_A, x_mag_B, y_mag_B, z_mag_B, position_A, position_B) ==
    [key |-> key, load_group |-> load_group, axes |-> axes, member |-> member,
     x_mag_A |-> x_mag_A, y_mag_A |-> y_mag_A, z_mag_A |-> z_mag_A,
     x_mag_B |-> x_mag_B, y_mag_B |-> y_mag_B, z_mag_B |-> z_mag_B,
     position_A |-> position_A, position_B |-> position_B]

Pressure(key, load_group, plate_id, x_mag, y_mag, z_mag) ==
    [key |-> key, load_group |-> load_group, plate_id |-> plate_id,
     x_mag |-> x_mag, y_mag |-> y_mag, z_mag |-> z_mag]

SelfWeight(key, x, y, z, load_group) ==
    [key |-> key, x |-> x, y |-> y, z |-> z, load_group |-> load_group]

Factor(name, value) == [key |-> name, val |-> value]

\* extra: the fields beyond name and criteria, in the order supplied.
LoadCombination(key, name, criteria, extra) ==
    [key |-> key, name |-> name, criteria |-> criteria, extra |-> extra]

ShearWallMaterial(name, E, G, nu, rho, t) ==
    [name |-> name, elasticity_modulus |-> E, shear_modulus |-> G,
     poissons_ratio |-> nu, density |-> rho, thickness |-> t,
     x_start |-> None, x_end |-> None, y_start |-> None, y_end |-> None]

ShearWallOpening(name, x_start, y_start, width, height) ==
    [name |-> name, x_start |-> x_start, y_start |-> y_start,
     width |-> width, height |-> height, tie_stiffness |-> None]

ShearWallFlange(thickness, width, x_position, y_start, y_end, material_name, side) ==
    [thickness |-> thickness, width |-> width, x_position |-> x_position,
     y_start |-> y_start, y_end |-> y_end, material_name |-> material_name,
     side |-> side]

ShearWallSupport(elevation) ==
    [elevation |-> elevation, x_start |-> None, x_end |-> None]

ShearWallStory(story_name, elevation) ==
    [story_name |-> story_name, elevation |-> elevation,
     x_start |-> None, x_end |-> None]

ShearWallLoad(load_group, story_name, force_magnitude, load_type) ==
    [load_group |-> load_group, story_name |-> story_name,
     force_magnitude |-> force_magnitude, load_type |-> load_type]

ShearWall(key, length, height, materials, openings, flanges, supports, stories, loads) ==
    [key |-> key, length |-> length, height |-> height,
     mesh_size |-> Z(1), ky_modification_factor |-> Q(35, 100),
     materials |-> materials, openings |-> openings, flanges |-> flanges,
     supports |-> supports, stories |-> stories, loads |-> loads]

TTTTTT == <<"T", "T", "T", "T", "T", "T">>
FFFFFF == <<"F", "F", "F", "F", "F", "F">>

\* create_two_storey_structure()
SampleModel ==
    [materials |-> << Material("1", Z(210000), Some(Z(81000)), Z(7850),
                               Q(3, 10), Some(Z(355))) >>,
     sections |-> << Section("1", Q(78, 10000), Q(5696, 100000000),
                             Q(2003, 100000000), Some(Q(190, 100000000)), 1),
                     Section("2", Q(53, 10000), Q(8356, 100000000),
                             Q(604, 100000000), Some(Q(201, 1000000000)), 1) >>,
     nodes |-> << Node("1", Z(0), Z(0), Z(0)),
              Node("2", Z(6), Z(0), Z(0)),
              Node("3", Z(6), Z(4), Z(0)),
              Node("4", Z(0), Z(4), Z(0)),
              Node("5", Z(0), Z(0), Z(3)),
              Node("6", Z(6), Z(0), Z(3)),
              Node("7", Z(6), Z(4), Z(3)),
              Node("8", Z(0), Z(4), Z(3)),
              Node("9", Z(0), Z(0), Z(6)),
              Node("10", Z(6), Z(0), Z(6)),
              Node("11", Z(6), Z(4), Z(6)),
              Node("12", Z(0), Z(4), Z(6)) >>,
     plates |-> << Plate("SLAB_1F", <<5, 6, 7, 8>>, 1, Q(2, 10)),
                   Plate("SLAB_2F", <<9, 10, 11, 12>>, 1, Q(2, 10)) >>,
     members |-> << Member("C1_GF", 1, 5, 1, 0, FFFFFF, FFFFFF),
                Member("C2_GF", 2, 6, 1, 0, FFFFFF, FFFFFF),
                Member("C3_GF", 3, 7, 1, 0, FFFFFF, FFFFFF),
                Member("C4_GF", 4, 8, 1, 0, FFFFFF, FFFFFF),
                Member("C1_FS", 5, 9, 1, 0, FFFFFF, FFFFFF),
                Member("C2_FS", 6, 10, 1, 0, FFFFFF, FFFFFF),
                Member("C3_FS", 7, 11, 1, 0, FFFFFF, FFFFFF),
                Member("C4_FS", 8, 12, 1, 0, FFFFFF, FFFFFF),
                Member("B1_F1", 5, 6, 2, 0, FFFFFF, FFFFFF),
                Member("B2_F1", 6, 7, 2, 0, FFFFFF, FFFFFF),
                Member("B3_F1", 7, 8, 2, 0, FFFFFF, FFFFFF),
                Member("B4_F1", 8, 5, 2, 0, FFFFFF, FFFFFF),
                Member("B1_F2", 9, 10, 2, 0, FFFFFF, FFFFFF),
                Member("B2_F2", 10, 11, 2, 0, FFFFFF, FFFFFF),
                Member("B3_F2", 11, 12, 2, 0, FFFFFF, FFFFFF),
                Member("B4_F2", 12, 9, 2, 0, FFFFFF, FFFFFF) >>,
     supports |-> << Support("1", 1, TTTTTT), Support("2", 2, TTTTTT),
                     Support("3", 3, TTTTTT), Support("4", 4, TTTTTT) >>,
     point_loads |-> << PointLoad("LL_F1_N5", "Live", "n", Some("5"), NoRef, Z(0), Z(0), Z(-15)),
                    PointLoad("LL_F1_N6", "Live", "n", Some("6"), NoRef, Z(0), Z(0), Z(-15)),
                    PointLoad("LL_F1_N7", "Live", "n", Some("7"), NoRef, Z(0), Z(0), Z(-15)),
                    PointLoad("LL_F1_N8", "Live", "n", Some("8"), NoRef, Z(0), Z(0), Z(-15)),
                    PointLoad("LL_F2_N9", "Live", "n", Some("9"), NoRef, Z(0), Z(0), Z(-12)),
                    PointLoad("LL_F2_N10", "Live", "n", Some("10"), NoRef, Z(0), Z(0), Z(-12)),
                    PointLoad("LL_F2_N11", "Live", "n", Some("11"), NoRef, Z(0), Z(0), Z(-12)),
                    PointLoad("LL_F2_N12", "Live", "n", Some("12"), NoRef, Z(0), Z(0), Z(-12)),
                    PointLoad("Wind_N9", "Wind", "n", Some("9"), NoRef, Z(5), Z(0), Z(0)),
                    PointLoad("Wind_N10", "Wind", "n", Some("10"), NoRef, Z(5), Z(0), Z(0)),
                    PointLoad("Wind_N11", "Wind", "n", Some("11"), NoRef, Z(5), Z(0), Z(0)),
                    PointLoad("Wind_N12", "Wind", "n", Some("12"), NoRef, Z(5), Z(0), Z(0)) >>,
     distributed_loads |-> << DistributedLoad("DL_B1_F1", "Dead", "global", StrRef("B1_F1"),
                              Z(0), Z(0), Z(-10), Z(0), Z(0), Z(-10), Z(0), Z(100)),
                          DistributedLoad("DL_B2_F1", "Dead", "global", StrRef("B2_F1"),
                              Z(0), Z(0), Z(-10), Z(0), Z(0), Z(-10), Z(0), Z(100)),
                          DistributedLoad("DL_B3_F1", "Dead", "global", StrRef("B3_F1"),
                              Z(0), Z(0), Z(-10), Z(0), Z(0), Z(-10), Z(0), Z(100)),
                          DistributedLoad("DL_B4_F1", "Dead", "global", StrRef("B4_F1"),
                              Z(0), Z(0), Z(-10), Z(0), Z(0), Z(-10), Z(0), Z(100)),
                          DistributedLoad("DL_B1_F2", "Dead", "global", StrRef("B1_F2"),
                              Z(0), Z(0), Z(-8), Z(0), Z(0), Z(-8), Z(0), Z(100)),
                          DistributedLoad("DL_B2_F2", "Dead", "global", StrRef("B2_F2"),
                              Z(0), Z(0), Z(-8), Z(0), Z(0), Z(-8), Z(0), Z(100)),
                          DistributedLoad("DL_B3_F2", "Dead", "global", StrRef("B3_F2"),
                              Z(0), Z(0), Z(-8), Z(0), Z(0), Z(-8), Z(0), Z(100)),
                          DistributedLoad("DL_B4_F2", "Dead", "global", StrRef("B4_F2"),
                              Z(0), Z(0), Z(-8), Z(0), Z(0), Z(-8), Z(0), Z(100)) >>,
     area_loads |-> << Pressure("PL_SLAB_1F_DEAD", "Dead", 1, Z(0), Z(0), Z(-5)),
                       Pressure("PL_SLAB_1F_LIVE", "Live", 1, Z(0), Z(0), Z(-3)),
                       Pressure("PL_SLAB_2F_DEAD", "Dead", 2, Z(0), Z(0), Z(-4)),
                       Pressure("PL_SLAB_2F_LIVE", "Live", 2, Z(0), Z(0), Q(-5, 2)) >>,
     self_weight |-> << SelfWeight("SW", Z(0), Z(0), Z(-1), "Dead") >>,
     load_combinations |->
        << LoadCombination("ULS_1", "1.35G + 1.5Q", "ULS",
              << Factor("Dead", Q(135, 100)), Factor("Live", Q(15, 10)) >>),
           LoadCombination("ULS_2", "1.35G + 1.5Q + 0.9W", "ULS",
              << Factor("Dead", Q(135, 100)), Factor("Live", Q(15, 10)),
                 Factor("Wind", Q(9, 10)) >>),
           LoadCombination("SLS", "1.0G + 1.0Q", "SLS",
              << Factor("Dead", Z(1)), Factor("Live", Z(1)) >>) >>,
     shear_walls |-> <<>>]

-----------------------------------------------------------------------------
(* Inputs.  A small base model, and families of models that each vary the   *)
(* entities of one translation step.  Node coordinates are chosen so that    *)
(* the member lengths are 5, 12 and 13.                                      *)

MaxCodeLen == 7
MaxExtraFields == 2

BaseModel ==
    [materials |-> << Material("1", Z(210000), Some(Z(81000)), Z(7850),
                               Q(3, 10), Some(Z(355))) >>,
     sections |-> << Section("1", Q(78, 10000), Q(5696, 100000000),
                             Q(2003, 100000000), None, 1) >>,
     nodes |-> << Node("1", Z(0), Z(0), Z(0)), Node("2", Z(3), Z(4), Z(0)),
                  Node("3", Z(3), Z(4), Z(12)), Node("4", Z(0), Z(0), Z(12)) >>,
     plates |-> << Plate("P1", <<1, 2, 3, 4>>, 1, Q(2, 10)) >>,
     members |-> << Member("M1", 1, 2, 1, 0, FFFFFF, FFFFFF),
                    Member("M2", 2, 3, 1, 0, FFFFFF, FFFFFF),
                    Member("7", 1, 3, 1, 0, FFFFFF, FFFFFF) >>,
     supports |-> << Support("1", 1, TTTTTT) >>,
     point_loads |-> <<>>,
     distributed_loads |-> <<>>,
     area_loads |-> <<>>,
     self_weight |-> << SelfWeight("SW", Z(0), Z(0), Z(-1), "Dead") >>,
     load_combinations |->
        << LoadCombination("ULS_1", "1.35G + 1.5Q", "ULS",
              << Factor("Dead", Q(135, 100)), Factor("Live", Q(15, 10)) >>) >>,
     shear_walls |-> <<>>]

\* Every code of at most MaxCodeLen characters over an alphabet.
Codes(alphabet) == UNION {[1..n -> alphabet] : n \in 0..MaxCodeLen}

\* Each family is a predicate on the model m that Init enumerates.

\* Supports: the first code ranges over every code, followed by a valid one;
\* and a valid or short code followed by a short one.
SupportModel(m) ==
    \/ \E c1 \in Codes({"T", "t", "F"}) :
         m = [BaseModel EXCEPT !.supports =
                << Support("1", 1, c1), Support("S2", 2, TTTTTT) >>]
    \/ \E c1 \in {TTTTTT, <<"t", "F", "T", "t", "F", "T", "T">>, <<"T", "T">>} :
         m = [BaseModel EXCEPT !.supports =
                << Support("1", 1, c1), Support("S2", 2, <<"T", "T", "T">>) >>]

\* Members: fixity_A of the first member ranges over every code with a mixed
\* fixity_B; and a few codes at A with a fixed, a released and a short B.
MemberModel(m) ==
    \/ \E fa \in Codes({"R", "r", "F"}) :
         m = [BaseModel EXCEPT !.members[1] =
                Member("M1", 1, 2, 1, 0, fa, <<"R", "r", "F", "F", "r", "R">>)]
    \/ \E fa \in {FFFFFF, <<"R", "F", "r", "F", "R", "F">>, <<"R">>},
          fb \in {FFFFFF, <<"r", "r", "r", "r", "r", "r", "r">>, <<"R", "R">>} :
         m = [BaseModel EXCEPT !.members[2] =
                Member("M2", 2, 3, 1, 0, fa, fb)]

\* A member whose section does not resolve.
DanglingModel(m) ==
    \E k \in 1..3 :
        m = [BaseModel EXCEPT !.members[k] =
                Member("X", 1, 2, 9, 0, FFFFFF, FFFFFF)]

\* Plates of 0, 3, 4 and 5 nodes, and pressure loads on ordinals around them.
NodeLists == {<<>>, <<1, 2, 3>>, <<1, 2, 3, 4>>, <<4, 3, 2, 1>>, <<1, 2, 3, 4, 1>>}

PlateLists ==
    {<<>>}
    \cup {<<Plate("P1", n1, 1, Q(2, 10))>> : n1 \in NodeLists}
    \cup {<<Plate("P1", n1, 1, Q(2, 10)), Plate("2", n2, 1, Q(2, 10))>> :
            n1 \in NodeLists, n2 \in NodeLists}
    \cup {<<Plate("2", <<1, 2, 3, 4>>, 1, Q(2, 10)),
            Plate("1", <<4, 3, 2, 1>>, 1, Q(2, 10))>>,
          <<Plate("", <<1, 2, 3, 4>>, 1, Q(2, 10))>>}

PressureLists ==
    {<<>>}
    \cup {<<Pressure("A1", "Dead", id, x, y, z),
            Pressure("A2", "Live", 1, Z(0), Z(0), Z(-3))>> :
            id \in -1..3, x \in {Z(0), Z(2)}, y \in {Z(0), Z(4)},
            z \in {Z(0), Q(-5, 2)}}

PlateModel(m) ==
    \E ps \in PlateLists, als \in PressureLists :
        m = [BaseModel EXCEPT !.plates = ps, !.area_loads = als]

\* Materials with a shear modulus that is absent, zero or positive, and a
\* Poisson ratio that is positive, zero or -1.
MaterialModel(m) ==
    \E G \in {None, Some(Z(0)), Some(Z(81000))},
       nu \in {Q(3, 10), Z(0), Z(-1)},
       fy \in {None, Some(Z(355))}, pos \in 1..2 :
        m = [BaseModel EXCEPT !.materials =
               IF pos = 1
               THEN << Material("steel", Z(210000), G, Z(7850), nu, fy),
                       Material("1", Z(30000), None, Z(2500), Q(1, 5), None) >>
               ELSE << Material("1", Z(30000), None, Z(2500), Q(1, 5), None),
                       Material("steel", Z(210000), G, Z(7850), nu, fy) >>]

\* Self-weight entries with every combination of zero and nonzero multipliers.
Multipliers == {Z(0), Z(-1), Q(3, 2)}

SelfWeightModel(m) ==
    \E x \in Multipliers, y \in Multipliers, z \in Multipliers :
        m = [BaseModel EXCEPT !.self_weight =
               << SelfWeight("SW", x, y, z, "Dead"),
                  SelfWeight("SW2", Z(0), Z(0), Z(0), "Live"),
                  SelfWeight("SW3", Z(0), Z(0), Z(-1), "Dead") >>]

\* Point loads on a node, on a member, or on neither.
Magnitudes == {Z(0), Z(5), Q(-5, 2)}

PointLoadModel(m) ==
    \E type \in {"n", "m"}, node \in {NoRef, Some("1"), Some("3")},
       member \in {NoRef, Some("M1")},
       x \in Magnitudes, y \in Magnitudes, z \in Magnitudes :
        m = [BaseModel EXCEPT !.point_loads =
               << PointLoad("PL1", "Live", type, node, member, x, y, z),
                  PointLoad("PL2", "Wind", "n", Some("3"), NoRef,
                            Z(5), Z(0), Z(0)),
                  PointLoad("PL3", "Wind", "m", Some("1"), NoRef,
                            Z(0), Z(0), Z(0)) >>]

\* Distributed loads: member references that resolve (by str or int) or not,
\* both axis frames, each end magnitude zero or not, several positions.
MemberRefs == {StrRef("M1"), StrRef("M2"), StrRef("7"), IntRef(7),
               StrRef("nope"), IntRef(9)}

Positions == {<<Z(0), Z(100)>>, <<Z(25), Z(50)>>, <<Q(25, 2), Z(100)>>}

DistLoadModel(m) ==
    \E axes \in {"local", "global"}, ref \in MemberRefs,
       ref2 \in {StrRef("M2"), StrRef("gone")},
       xa \in {Z(0), Z(3)}, ya \in {Z(0), Z(-10)}, za \in {Z(0), Q(7, 2)},
       xb \in {Z(0), Z(4)}, yb \in {Z(0), Z(-10)}, pos \in Positions :
        m = [BaseModel EXCEPT
               !.distributed_loads =
                 << DistributedLoad("DL1", "Dead", axes, ref,
                                    xa, ya, za, xb, yb, Z(0), pos[1], pos[2]),
                    DistributedLoad("DL2", "Live", "global", ref2,
                                    Z(0), Z(0), Z(-8), Z(0), Z(0), Z(-8),
                                    Z(0), Z(100)) >>,
               !.area_loads = << Pressure("A1", "Dead", 1, Z(0), Z(0), Z(-5)) >>]

\* Load combinations with up to MaxExtraFields extra fields, in either order.
FactorNames == {"Dead", "Live", "Wind"}
FactorValues == {Q(135, 100), Z(0)}

ExtraLists ==
    UNION {{e \in [1..n -> {Factor(k, v) : k \in FactorNames, v \in FactorValues}] :
               \A i, j \in 1..n : e[i].key = e[j].key => i = j} :
           n \in 0..MaxExtraFields}

ComboModel(m) ==
    \/ m = [BaseModel EXCEPT !.load_combinations = <<>>]
    \/ \E e1 \in ExtraLists, e2 \in {<<>>, <<Factor("Live", Z(1))>>} :
         m = [BaseModel EXCEPT !.load_combinations =
                << LoadCombination("ULS_1", "1.35G + 1.5Q", "ULS", e1),
                   LoadCombination("SLS", "1.0G + 1.0Q", "SLS", e2) >>]

\* Shear walls, as in the shear-wall test model.
WallMat == ShearWallMaterial("Concrete", Z(30000), Z(12500), Q(2, 10), Z(2400), Q(25, 100))

WallX1 ==
    ShearWall("SW_X1", Z(6), Z(6), <<WallMat>>,
              <<ShearWallOpening("Door", Z(2), Z(0), Z(1), Z(2))>>, <<>>,
              <<ShearWallSupport(Z(0))>>,
              <<ShearWallStory("Story 1", Z(3)), ShearWallStory("Story 2", Z(6))>>,
              <<ShearWallLoad("Wind", "Story 1", Z(50), "shear"),
                ShearWallLoad("Dead", "Story 2", Z(100), "axial")>>)

WallY1 ==
    ShearWall("SW_Y1", Z(4), Z(6), <<WallMat>>, <<>>,
              <<ShearWallFlange(Q(25, 100), Z(1), Z(0), Z(0), Z(6), "Concrete", "NS")>>,
              <<ShearWallSupport(Z(0))>>,
              <<ShearWallStory("Story 1", Z(3))>>,
              <<ShearWallLoad("Wind", "Story 1", Z(30), "shear")>>)

WallModel(m) ==
    \E ws \in {<<WallX1>>, <<WallX1, WallY1>>, <<WallY1, WallX1>>} :
        m = [BaseModel EXCEPT !.shear_walls = ws]

InputModel(m) ==
    \/ m = SampleModel
    \/ m = BaseModel
    \/ SupportModel(m)
    \/ MemberModel(m)
    \/ DanglingModel(m)
    \/ MaterialModel(m)
    \/ SelfWeightModel(m)
    \/ PlateModel(m)
    \/ PointLoadModel(m)
    \/ DistLoadModel(m)
    \/ ComboModel(m)
    \/ WallModel(m)

-----------------------------------------------------------------------------
(* The translator as a state machine.  translate_model runs its nine steps   *)
(* in order; pc names the step about to run.  self.aidea_model refers to the *)
(* caller's object, which is arg.                                            *)

NoSolver == [created |-> FALSE, calls |-> <<>>]

\* No analysis or result method has been called; n counts the calls made.
NoReturn == [method |-> "none", n |-> 0, exc |-> ""]

Init ==
    /\ InputModel(arg)
    /\ aidea_model = [some |-> FALSE]
    /\ pynite_model = NoSolver
    /\ shear_walls = <<>>
    /\ stdout = <<>>
    /\ pc = "idle"
    /\ exc = ""
    /\ ret = NoReturn
    /\ results = None

\* translate_model, lines 33-34: keep the model, make a fresh FEModel3D.
translate_model ==
    /\ pc = "idle"
    /\ aidea_model' = [some |-> TRUE]
    /\ pynite_model' = [created |-> TRUE, calls |-> <<>>]
    /\ pc' = "materials"
    /\ UNCHANGED <<arg, shear_walls, stdout, exc, ret, results>>

\* One step of translate_model: the outcome r of the step's method is applied
\* to the solver and to stdout; an exception ends the call.
Step(here, r, next) ==
    /\ pc = here
    /\ pynite_model' = [pynite_model EXCEPT !.calls = @ \o r.calls]
    /\ stdout' = stdout \o r.out
    /\ IF r.exc # ""
       THEN pc' = "raised" /\ exc' = r.exc
       ELSE pc' = next /\ exc' = exc
    /\ UNCHANGED <<arg, aidea_model, shear_walls, ret, results>>

\* Faulty variant: the load combinations are translated before the loads.
NextStep_CombinationsFirst(here) ==
    CASE here = "materials" -> "sections"
      [] here = "sections" -> "nodes"
      [] here = "nodes" -> "supports"
      [] here = "supports" -> "members"
      [] here = "members" -> "plates"
      [] here = "plates" -> "load_combinations"
      [] here = "load_combinations" -> "loads"
      [] here = "loads" -> "shear_walls"

\* The step translate_model runs after the step `here`, lines 34-42.
NextStep(here) ==
    CASE here = "materials" -> "sections"
      [] here = "sections" -> "nodes"
      [] here = "nodes" -> "supports"
      [] here = "supports" -> "members"
      [] here = "members" -> "plates"
      [] here = "plates" -> "loads"
      [] here = "loads" -> "load_combinations"
      [] here = "load_combinations" -> "shear_walls"

TranslateMaterials ==
    Step("materials", _translate_materials(arg), NextStep("materials"))
TranslateSections ==
    Step("sections", _translate_sections(arg), NextStep("sections"))
TranslateNodes == Step("nodes", _translate_nodes(arg), NextStep("nodes"))
TranslateSupports ==
    Step("supports", _translate_supports(arg), NextStep("supports"))
TranslateMembers ==
    Step("members", _translate_members(arg), NextStep("members"))
TranslatePlates == Step("plates", _translate_plates(arg), NextStep("plates"))
TranslateLoads == Step("loads", _translate_loads(arg), NextStep("loads"))
TranslateLoadCombinations ==
    LET r == _translate_load_combinations(arg) IN
    /\ pc = "load_combinations"
    /\ pynite_model' = [pynite_model EXCEPT !.calls = @ \o r.calls]
    /\ stdout' = stdout \o r.out
    /\ IF r.exc # ""
       THEN pc' = "raised" /\ exc' = r.exc
       ELSE pc' = NextStep("load_combinations") /\ exc' = exc
    /\ arg' = LoadCombinationsAfter(arg)
    /\ UNCHANGED <<aidea_model, shear_walls, ret, results>>

\* The last step; translate_model then returns self.pynite_model.
TranslateShearWalls ==
    /\ pc = "shear_walls"
    /\ shear_walls' = _translate_shear_walls(arg.shear_walls, 1, shear_walls)
    /\ pc' = "returned"
    /\ UNCHANGED <<arg, aidea_model, pynite_model, stdout, exc, ret, results>>

Next ==
    \/ translate_model
    \/ TranslateMaterials
    \/ TranslateSections
    \/ TranslateNodes
    \/ TranslateSupports
    \/ TranslateMembers
    \/ TranslatePlates
    \/ TranslateLoads
    \/ TranslateLoadCombinations
    \/ TranslateShearWalls

Spec == Init /\ [][Next]_vars

-----------------------------------------------------------------------------
(* The analysis and result methods.  Each is an operator from the            *)
(* translator's fields, the caller's arguments and the solver's answers to   *)
(* what the method does: the solver calls it makes, what it prints, and the  *)
(* value or exception it ends with.                                          *)

\* str.lower() on one character, over the characters the tags use.
lower(c) ==
    CASE c = "L" -> "l" [] c = "I" -> "i" [] c = "N" -> "n" [] c = "E" -> "e"
      [] c = "A" -> "a" [] c = "R" -> "r" [] c = "P" -> "p" [] c = "D" -> "d"
      [] c = "T" -> "t" [] c = "O" -> "o"
      [] OTHER -> c

str_lower(s) == [i \in 1..Len(s) |-> lower(s[i])]

\* Faulty variant: the tag is compared as given.
run_analysis_CaseSensitive(created, analysis_type, kwargs) ==
    IF ~created THEN [calls |-> <<>>, exc |-> "ValueError"]
    ELSE IF analysis_type = <<"l", "i", "n", "e", "a", "r">>
    THEN [calls |-> << [op |-> "analyze_linear", kwargs |-> kwargs] >>, exc |-> ""]
    ELSE IF analysis_type = <<"p", "d", "e", "l", "t", "a">>
    THEN [calls |-> << [op |-> "analyze_PDelta", kwargs |-> kwargs] >>, exc |-> ""]
    ELSE IF analysis_type = <<"n", "o", "n", "l", "i", "n", "e", "a", "r">>
    THEN [calls |-> << [op |-> "analyze", kwargs |-> kwargs] >>, exc |-> ""]
    ELSE [calls |-> <<>>, exc |-> "ValueError"]

\* run_analysis: created says whether self.pynite_model is not None.
run_analysis(created, analysis_type, kwargs) ==
    IF ~created THEN [calls |-> <<>>, exc |-> "ValueError"]
    ELSE IF str_lower(analysis_type) = <<"l", "i", "n", "e", "a", "r">>
    THEN [calls |-> << [op |-> "analyze_linear", kwargs |-> kwargs] >>, exc |-> ""]
    ELSE IF str_lower(analysis_type) = <<"p", "d", "e", "l", "t", "a">>
    THEN [calls |-> << [op |-> "analyze_PDelta", kwargs |-> kwargs] >>, exc |-> ""]
    ELSE IF str_lower(analysis_type) = <<"n", "o", "n", "l", "i", "n", "e", "a", "r">>
    THEN [calls |-> << [op |-> "analyze", kwargs |-> kwargs] >>, exc |-> ""]
    ELSE [calls |-> <<>>, exc |-> "ValueError"]

\* What the solver holds after the registration calls: its load combination,
\* node and member names in order of registration, and the supported nodes.
SolverNames(pm, op) ==
    LET reg == SelectSeq(pm.calls, LAMBDA c : c.op = op)
    IN  [i \in 1..Len(reg) |-> reg[i].name]

\* Faulty variant: every node given a support definition counts as supported.
SolverSupported_AnyDefinition(pm, node_name) ==
    \E i \in 1..Len(pm.calls) :
        pm.calls[i].op = "def_support" /\ pm.calls[i].node_name = node_name

SolverSupported(pm, node_name) ==
    LET reg == SelectSeq(pm.calls,
                 LAMBDA c : c.op = "def_support" /\ c.node_name = node_name)
    IN  /\ reg # <<>>
        /\ LET c == reg[Len(reg)]
           IN  \/ c.support_DX \/ c.support_DY \/ c.support_DZ
               \/ c.support_RX \/ c.support_RY \/ c.support_RZ

\* load_combos: the solver's combination names, or ['Combo 1'] when none.
LoadCombos(pm) ==
    IF SolverNames(pm, "add_load_combo") = <<>> THEN << "Combo 1" >>
    ELSE SolverNames(pm, "add_load_combo")

\* The values the solver's six extremum queries return for a member, in the
\* order the code makes them.
ExtremumQueries ==
    << "max_moment", "min_moment", "max_shear", "min_shear", "max_axial",
       "min_axial" >>

SolverExtremum(query) ==
    CASE query = "max_moment" -> 11 [] query = "min_moment" -> -12
      [] query = "max_shear" -> 13 [] query = "min_shear" -> -14
      [] query = "max_axial" -> 15 [] query = "min_axial" -> -16

ZeroPlaceholder ==
    [max_moment |-> 0, min_moment |-> 0, max_shear |-> 0, min_shear |-> 0,
     max_axial |-> 0, min_axial |-> 0]

\* Faulty variant: the queries made before the failing one keep their values.
MemberForces_Partial(raising) ==
    [q \in {ExtremumQueries[k] : k \in 1..6} |->
        IF \E k \in 1..6 : ExtremumQueries[k] = q /\ raising # 0 /\ k >= raising
        THEN 0 ELSE SolverExtremum(q)]

\* The try/except around the six queries: raising is the position of the
\* query that raises, 0 when none does.
MemberForces(raising) ==
    IF raising # 0 THEN ZeroPlaceholder
    ELSE [q \in {ExtremumQueries[k] : k \in 1..6} |-> SolverExtremum(q)]

\* combo in node.<component>: held is what the solver's node mappings hold,
\* a function from <<node name, component, combination>> to the value.
MappingHas(held, node_name, component, combo) ==
    <<node_name, component, combo>> \in DOMAIN held

\* The six values of one record: node.<component>.get(combo, 0) for each.
NodeValues(held, node_name, combo, names) ==
    [q \in names |->
        IF MappingHas(held, node_name, q, combo)
        THEN held[<<node_name, q, combo>>] ELSE 0]

\* The records of one node: one per load combination that is a key of the
\* guarding mapping (DX for displacements, RxnFX for reactions), in order.
NodeRecords(held, node_name, load_combos, guard, names) ==
    LET present == SelectSeq(load_combos,
                      LAMBDA combo : MappingHas(held, node_name, guard, combo))
    IN  [k \in 1..Len(present) |->
            [key |-> present[k],
             val |-> NodeValues(held, node_name, present[k], names)]]

\* get_results_summary.  held: the nodes' displacement and reaction mappings
\* in the solver; raisingOf[<<member, combo>>]: the query that raises.
get_results_summary(pm, held, raisingOf) ==
    IF ~pm.created THEN [exc |-> "ValueError", value |-> <<>>]
    ELSE
    LET load_combos == LoadCombos(pm)
        nodes == SolverNames(pm, "add_node")
        members == SolverNames(pm, "add_member")
        supported == SelectSeq(nodes, LAMBDA n : SolverSupported(pm, n))
    IN  [exc |-> "",
         value |->
           [nodes |-> [i \in 1..Len(nodes) |->
                [key |-> nodes[i],
                 val |-> NodeRecords(held, nodes[i], load_combos, "DX",
                            {"DX", "DY", "DZ", "RX", "RY", "RZ"})]],
            members |-> [i \in 1..Len(members) |->
                [key |-> members[i],
                 val |-> [k \in 1..Len(load_combos) |->
                    [key |-> load_combos[k],
                     val |-> MemberForces(raisingOf[<<members[i], load_combos[k]>>])]]]],
            reactions |-> [i \in 1..Len(supported) |->
                [key |-> supported[i],
                 val |-> NodeRecords(held, supported[i], load_combos, "RxnFX",
                            {"RxnFX", "RxnFY", "RxnFZ", "RxnMX", "RxnMY", "RxnMZ"})]]]]

\* analyze_shear_walls: for each wall in order, print, generate, analyze,
\* print.  fails_at is the position of the wall whose generate() raises in
\* the solver, 0 when none does; the exception leaves the method.
RECURSIVE analyze_shear_walls(_, _, _, _, _)
analyze_shear_walls(walls, i, kwargs, fails_at, out) ==
    IF i > Len(walls) THEN [walls |-> walls, out |-> out, exc |-> ""]
    ELSE LET wall_id == walls[i].key
             generated == [walls EXCEPT ![i].val.calls =
                              Append(@, [op |-> "generate"])]
             started == Append(out, "Analyzing shear wall: " \o wall_id)
         IN  IF fails_at = i
             THEN [walls |-> generated, out |-> started, exc |-> "SolverError"]
             ELSE analyze_shear_walls(
                    [generated EXCEPT ![i].val.calls =
                        Append(@, [op |-> "analyze_linear", kwargs |-> kwargs])],
                    i + 1, kwargs, fails_at,
                    Append(started, "Shear wall " \o wall_id \o " analysis complete"))

\* wall._stories: the stories the wall object was given, in order.
WallStories(wall) ==
    LET reg == SelectSeq(wall.calls, LAMBDA c : c.op = "add_story")
    IN  [i \in 1..Len(reg) |-> reg[i].story_name]

\* Faulty variant: the displacement is derived for every nonzero stiffness.
StoryEntry_AnyNonzero(story_name, answer) ==
    IF answer.raises \/ RIsZero(answer.value)
    THEN [story_name |-> story_name, stiffness |-> Z(0),
          test_force |-> Z(100), max_displacement |-> Z(0)]
    ELSE [story_name |-> story_name, stiffness |-> answer.value,
          test_force |-> Z(100),
          max_displacement |-> RDiv(Z(100), answer.value)]

\* The entry of one story: answer is what wall.stiffness(story_name) does,
\* [raises, value].
StoryEntry(story_name, answer) ==
    IF answer.raises
    THEN [story_name |-> story_name, stiffness |-> Z(0),
          test_force |-> Z(100), max_displacement |-> Z(0)]
    ELSE [story_name |-> story_name, stiffness |-> answer.value,
          test_force |-> Z(100),
          max_displacement |-> IF answer.value.n > 0
                               THEN RDiv(Z(100), answer.value) ELSE Z(0)]

RECURSIVE story_stiffness_loop(_, _, _, _)
story_stiffness_loop(stories, i, stiffness, acc) ==
    IF i > Len(stories) THEN acc
    ELSE story_stiffness_loop(stories, i + 1, stiffness,
            DictSet(acc, stories[i],
                    StoryEntry(stories[i], stiffness[stories[i]])))

\* One pier: pier is the solver's pier object, forces the tuple
\* (P, M, V, M_VL) its sum_forces(combo_name) returns.
PierEntry(pier, forces) ==
    [key |-> pier.id,
     val |-> [pier_id |-> pier.id, x_position |-> pier.x, y_position |-> pier.y,
              width |-> pier.width, height |-> pier.height,
              axial_force |-> forces[1], shear_force |-> forces[3],
              moment |-> forces[2], shear_span_ratio |-> forces[4]]]

\* One coupling beam: forces is the tuple (P, M, V, M_VH) of its sum_forces.
BeamEntry(beam, forces) ==
    [key |-> beam.id,
     val |-> [beam_id |-> beam.id, x_position |-> beam.x, y_position |-> beam.y,
              length |-> beam.length, height |-> beam.height,
              axial_force |-> forces[1], shear_force |-> forces[3],
              moment |-> forces[2], shear_span_ratio |-> forces[4]]]

\* A sum_forces query is made for every pier and coupling beam, outside any
\* try: it raises when the solver raises and there is an element to ask.
SumForcesRaises(elements) ==
    elements.raises /\ Len(elements.piers) + Len(elements.beams) > 0

\* Faulty variant: an unknown wall id yields an empty result, not an error.
get_shear_wall_results_Lenient(walls, wall_id, combo_name, elements, stiffness) ==
    IF SumForcesRaises(elements) THEN [exc |-> "SolverError", value |-> <<>>]
    ELSE [exc |-> "",
          value |->
            [wall_id |-> wall_id,
             wall_length |-> IF HasKey(walls, wall_id)
                             THEN Get(walls, wall_id).val.L ELSE Z(0),
             wall_height |-> IF HasKey(walls, wall_id)
                             THEN Get(walls, wall_id).val.H ELSE Z(0),
             piers |-> [i \in 1..Len(elements.piers) |->
                 PierEntry(elements.piers[i], elements.forces)],
             coupling_beams |-> [i \in 1..Len(elements.beams) |->
                 BeamEntry(elements.beams[i], elements.forces)],
             story_stiffness |->
                 IF HasKey(walls, wall_id)
                 THEN story_stiffness_loop(WallStories(Get(walls, wall_id).val),
                                           1, stiffness, <<>>)
                 ELSE <<>>]]

\* get_shear_wall_results.  elements: the pier and coupling beam objects of
\* the solver's wall, in the order of wall.piers and wall.coupling_beams, with
\* the tuple sum_forces returns for each and whether it raises;
\* stiffness: what the stiffness query does for each story name.
get_shear_wall_results(walls, wall_id, combo_name, elements, stiffness) ==
    IF ~HasKey(walls, wall_id) THEN [exc |-> "ValueError", value |-> <<>>]
    ELSE IF SumForcesRaises(elements) THEN [exc |-> "SolverError", value |-> <<>>]
    ELSE LET wall == Get(walls, wall_id).val IN
         [exc |-> "",
          value |->
            [wall_id |-> wall_id, wall_length |-> wall.L, wall_height |-> wall.H,
             piers |-> [i \in 1..Len(elements.piers) |->
                 PierEntry(elements.piers[i], elements.forces)],
             coupling_beams |-> [i \in 1..Len(elements.beams) |->
                 BeamEntry(elements.beams[i], elements.forces)],
             story_stiffness |->
                 story_stiffness_loop(WallStories(wall), 1, stiffness, <<>>)]]

\* The whole of translate_model: the steps in order, an exception ending it.
Then(acc, r) ==
    IF acc.exc # "" THEN acc
    ELSE [calls |-> acc.calls \o r.calls, out |-> acc.out \o r.out,
          exc |-> r.exc]

\* translate_model up to _translate_loads, lines 36-42.
BeforeLoadCombinations(m) ==
    Then(Then(Then(Then(Then(Then(Then(NoOutcome,
        _translate_materials(m)), _translate_sections(m)),
        _translate_nodes(m)), _translate_supports(m)),
        _translate_members(m)), _translate_plates(m)),
        _translate_loads(m))

TranslateOutcome(m) ==
    Then(BeforeLoadCombinations(m), _translate_load_combinations(m))

\* The caller's Model as translate_model leaves it.  The translator keeps a
\* reference to it (line 33) and reads it in every step; the one step that
\* takes an entity apart is _translate_load_combinations, when it is reached.
SourceAfter(m) ==
    IF BeforeLoadCombinations(m).exc = "" THEN LoadCombinationsAfter(m) ELSE m

-----------------------------------------------------------------------------
(* The caller's use of one translator: translate_model and the analysis and  *)
(* result methods, each call one step, in any order.                         *)

MaxCalls == 3

AnalysisTypes ==
    { <<"l", "i", "n", "e", "a", "r">>, <<"L", "i", "n", "e", "a", "r">>,
      <<"p", "d", "e", "l", "t", "a">>, <<"P", "D", "e", "l", "t", "a">>,
      <<"n", "o", "n", "l", "i", "n", "e", "a", "r">>,
      <<"N", "O", "N", "L", "I", "N", "E", "A", "R">>,
      <<"s", "t", "a", "t", "i", "c">>, <<"p", "-", "d", "e", "l", "t", "a">>,
      <<>> }

KwargsSet == { <<>>, << [key |-> "log", val |-> TRUE] >> }

Raises == [raises |-> TRUE, value |-> Z(0)]
Returns(v) == [raises |-> FALSE, value |-> v]
StiffnessAnswers == {Raises, Returns(Z(0)), Returns(Z(-4)), Returns(Z(8)),
                     Returns(Q(1, 2))}

RaisingChoices == {0, 1, 6}

\* The solver's pier and coupling beam objects: position and size.
Pier(id, x, y, width, height) ==
    [id |-> id, x |-> x, y |-> y, width |-> width, height |-> height]

Beam(id, x, y, length, height) ==
    [id |-> id, x |-> x, y |-> y, length |-> length, height |-> height]

NoElements == [piers |-> <<>>, beams |-> <<>>, forces |-> <<0, 0, 0, 0>>,
               raises |-> FALSE]
ElementChoices ==
    { NoElements,
      [piers |-> << Pier("P1", Z(1), Z(2), Z(3), Z(4)),
                    Pier("P2", Z(5), Z(2), Q(3, 2), Z(4)) >>,
       beams |-> << Beam("B1", Z(4), Z(6), Q(7, 2), Z(1)) >>,
       forces |-> <<10, 20, 30, 2>>, raises |-> FALSE],
      [piers |-> << Pier("P1", Z(1), Z(2), Z(3), Z(4)) >>, beams |-> <<>>,
       forces |-> <<0, 0, 0, 0>>, raises |-> TRUE] }

WallIds == {"SW_X1", "SW_Y1", "nope"}

\* Combination names a caller asks results for: the default one and another.
ComboNames == {"Combo 1", "ULS_1"}

\* The models the caller translates: the base frame, one without load
\* combinations, one with two, one with two shear walls, and one whose
\* translation raises.
ApiModels ==
    { BaseModel,
      [BaseModel EXCEPT !.load_combinations = <<>>],
      [BaseModel EXCEPT
         !.members = << Member("M1", 1, 2, 1, 0, FFFFFF, FFFFFF) >>,
         !.supports = << Support("1", 1, TTTTTT), Support("S2", 2, FFFFFF) >>,
         !.load_combinations =
            << LoadCombination("ULS_1", "1.35G", "ULS", << Factor("Dead", Q(135, 100)) >>),
               LoadCombination("SLS", "G + Q", "SLS",
                  << Factor("Dead", Z(1)), Factor("Live", Z(1)) >>) >>],
      [BaseModel EXCEPT !.shear_walls = <<WallX1, WallY1>>],
      [BaseModel EXCEPT !.supports = << Support("1", 1, <<"T", "T">>) >>] }

ApiInit ==
    /\ arg \in ApiModels
    /\ aidea_model = [some |-> FALSE]
    /\ pynite_model = NoSolver
    /\ shear_walls = <<>>
    /\ stdout = <<>>
    /\ pc = "idle"
    /\ exc = ""
    /\ ret = NoReturn
    /\ results = None

\* translate_model(arg) from entry to return or exception.
TranslateModelCall ==
    LET r == TranslateOutcome(arg) IN
    /\ ret.n < MaxCalls
    /\ aidea_model' = [some |-> TRUE]
    /\ pynite_model' = [created |-> TRUE, calls |-> r.calls]
    /\ stdout' = stdout \o r.out
    /\ shear_walls' = IF r.exc = ""
                      THEN _translate_shear_walls(arg.shear_walls, 1, shear_walls)
                      ELSE shear_walls
    /\ pc' = IF r.exc = "" THEN "returned" ELSE "raised"
    /\ exc' = r.exc
    /\ ret' = [method |-> "translate_model", n |-> ret.n + 1, exc |-> r.exc]
    /\ arg' = SourceAfter(arg)
    /\ UNCHANGED results

RunAnalysis ==
    \E analysis_type \in AnalysisTypes, kwargs \in KwargsSet :
        LET r == run_analysis(pynite_model.created, analysis_type, kwargs) IN
        /\ ret.n < MaxCalls
        /\ pynite_model' = [pynite_model EXCEPT !.calls = @ \o r.calls]
        /\ ret' = [method |-> "run_analysis", n |-> ret.n + 1, exc |-> r.exc,
                   analysis_type |-> analysis_type, kwargs |-> kwargs]
        /\ UNCHANGED <<arg, aidea_model, shear_walls, stdout, pc, exc, results>>

MemberCombos(pm) ==
    {<<SolverNames(pm, "add_member")[i], LoadCombos(pm)[k]>> :
        i \in 1..Len(SolverNames(pm, "add_member")), k \in 1..Len(LoadCombos(pm))}

NodeComponents ==
    << "DX", "DY", "DZ", "RX", "RY", "RZ",
       "RxnFX", "RxnFY", "RxnFZ", "RxnMX", "RxnMY", "RxnMZ" >>

\* The node mappings of a solver: the nodes at the positions in rows hold,
\* for each of the components and each combination in solved, a value of
\* their own.
MappingsHolding(pm, rows, solved, components) ==
    LET nodes == SolverNames(pm, "add_node")
        combos == LoadCombos(pm)
        value(t) ==
            LET i == CHOOSE i \in DOMAIN nodes : nodes[i] = t[1]
                j == CHOOSE j \in 1..12 : NodeComponents[j] = t[2]
                k == CHOOSE k \in DOMAIN combos : combos[k] = t[3]
            IN  IF k % 2 = 1 THEN 20 * i + j ELSE -(20 * i + j)
    IN  [t \in {nodes[i] : i \in DOMAIN nodes \cap rows} \X components \X solved |->
            value(t)]

\* The solver states a summary is asked of: not analysed (the mappings are
\* empty), analysed for every combination, and a solver holding only some
\* mappings of some nodes for the first combination.
HeldChoices(pm) ==
    LET combos == LoadCombos(pm)
        all == DOMAIN SolverNames(pm, "add_node")
    IN  {MappingsHolding(pm, all, {}, {}),
         MappingsHolding(pm, all, SeqToSet(combos), SeqToSet(NodeComponents)),
         MappingsHolding(pm, {1, 3}, {combos[1]}, {"DX", "RZ", "RxnFZ"})}

GetResultsSummary ==
    \E held \in HeldChoices(pynite_model),
       raisingOf \in [MemberCombos(pynite_model) -> RaisingChoices] :
        LET r == get_results_summary(pynite_model, held, raisingOf) IN
        /\ ret.n < MaxCalls
        /\ ret' = [method |-> "get_results_summary", n |-> ret.n + 1,
                   exc |-> r.exc, value |-> r.value,
                   held |-> held, raisingOf |-> raisingOf]
        /\ UNCHANGED <<arg, aidea_model, pynite_model, shear_walls, stdout, pc, exc, results>>

AnalyzeShearWalls ==
    \E kwargs \in KwargsSet, fails_at \in 0..Len(shear_walls) :
        LET r == analyze_shear_walls(shear_walls, 1, kwargs, fails_at, <<>>) IN
        /\ ret.n < MaxCalls
        /\ shear_walls' = r.walls
        /\ stdout' = stdout \o r.out
        /\ ret' = [method |-> "analyze_shear_walls", n |-> ret.n + 1,
                   exc |-> r.exc, kwargs |-> kwargs]
        /\ UNCHANGED <<arg, aidea_model, pynite_model, pc, exc, results>>

StoryNames(walls, wall_id) ==
    IF HasKey(walls, wall_id)
    THEN SeqToSet(WallStories(Get(walls, wall_id).val)) ELSE {}

GetShearWallResults ==
    \E wall_id \in WallIds, elements \in ElementChoices, combo_name \in ComboNames :
    \E stiffness \in [StoryNames(shear_walls, wall_id) -> StiffnessAnswers] :
        LET r == get_shear_wall_results(shear_walls, wall_id, combo_name,
                                        elements, stiffness) IN
        /\ ret.n < MaxCalls
        /\ ret' = [method |-> "get_shear_wall_results", n |-> ret.n + 1,
                   exc |-> r.exc, value |-> r.value, wall_id |-> wall_id,
                   combo_name |-> combo_name,
                   elements |-> elements, stiffness |-> stiffness]
        /\ UNCHANGED <<arg, aidea_model, pynite_model, shear_walls, stdout, pc, exc, results>>

ApiNext ==
    \/ TranslateModelCall
    \/ RunAnalysis
    \/ GetResultsSummary
    \/ AnalyzeShearWalls
    \/ GetShearWallResults

ApiSpec == ApiInit /\ [][ApiNext]_vars

\* A translator that has already translated an earlier Model and is now
\* handed another one: the state translate_model(earlier) leaves behind.
ReuseInit ==
    \E earlier \in ApiModels :
        LET r == TranslateOutcome(earlier) IN
        /\ arg \in ApiModels
        /\ aidea_model = [some |-> TRUE]
        /\ pynite_model = [created |-> TRUE, calls |-> r.calls]
        /\ shear_walls = IF r.exc = ""
                         THEN _translate_shear_walls(earlier.shear_walls, 1, <<>>)
                         ELSE <<>>
        /\ stdout = r.out
        /\ pc = IF r.exc = "" THEN "returned" ELSE "raised"
        /\ exc = r.exc
        /\ ret = [method |-> "translate_model", n |-> 1, exc |-> r.exc]
        /\ results = None

ReuseSpec == ReuseInit /\ [][ApiNext]_vars

-----------------------------------------------------------------------------
(* Result records (src/pynite_results_models.py) and the extraction workflow *)
(* that fills them after an analysis (src/test_pynite_results_models.py).    *)
(* Result values are floats holding whole numbers, written as integers.      *)

MaxWith0(S) == CHOOSE m \in S \cup {0} : \A x \in S \cup {0} : x <= m

\* d.get(k, default) on a dict of [key, val] entries.
DictGet(d, k, default) == IF HasKey(d, k) THEN Get(d, k).val ELSE default

\* (x**2 + y**2 + z**2)**0.5
Magnitude(v) == ISqrt(v.x * v.x + v.y * v.y + v.z * v.z)

Vector3D(x, y, z) == [x |-> x, y |-> y, z |-> z]

create_nodal_displacement_from_pynite(pynite_node, combo_name) ==
    LET d == DictGet(pynite_node.D, combo_name, <<0, 0, 0>>)
        r == DictGet(pynite_node.R, combo_name, <<0, 0, 0>>)
    IN  [load_combination |-> combo_name, element_id |-> pynite_node.name,
         node_id |-> pynite_node.name,
         displacement |-> Vector3D(d[1], d[2], d[3]),
         rotation |-> Vector3D(r[1], r[2], r[3])]

create_nodal_reaction_from_pynite(pynite_node, combo_name) ==
    LET f == DictGet(pynite_node.RxnF, combo_name, <<0, 0, 0>>)
        m == DictGet(pynite_node.RxnM, combo_name, <<0, 0, 0>>)
    IN  [load_combination |-> combo_name, element_id |-> pynite_node.name,
         node_id |-> pynite_node.name,
         force |-> Vector3D(f[1], f[2], f[3]),
         moment |-> Vector3D(m[1], m[2], m[3])]

\* MemberResults of one member: answer is what the member's extremum
\* queries and f() return for the combination.  Every record carries the
\* combination and the member's name twice, as element_id and member_id; the
\* ..._at_locations lists and the relative deflections keep their defaults.
create_member_results_from_pynite(pynite_member, combo_name) ==
    LET answer == pynite_member.answers[combo_name]
        name == pynite_member.name
    IN
    [load_combination |-> combo_name, element_id |-> name, member_id |-> name,
     axial_force |->
        [load_combination |-> combo_name, element_id |-> name, member_id |-> name,
         max_axial |-> answer.axial[1], min_axial |-> answer.axial[2],
         axial_at_locations |-> <<>>],
     shear_force_y |->
        [load_combination |-> combo_name, element_id |-> name, member_id |-> name,
         direction |-> "Fy", max_shear |-> answer.Fy[1], min_shear |-> answer.Fy[2],
         shear_at_locations |-> <<>>],
     shear_force_z |->
        [load_combination |-> combo_name, element_id |-> name, member_id |-> name,
         direction |-> "Fz", max_shear |-> answer.Fz[1], min_shear |-> answer.Fz[2],
         shear_at_locations |-> <<>>],
     moment_y |->
        [load_combination |-> combo_name, element_id |-> name, member_id |-> name,
         direction |-> "My", max_moment |-> answer.My[1], min_moment |-> answer.My[2],
         moment_at_locations |-> <<>>],
     moment_z |->
        [load_combination |-> combo_name, element_id |-> name, member_id |-> name,
         direction |-> "Mz", max_moment |-> answer.Mz[1], min_moment |-> answer.Mz[2],
         moment_at_locations |-> <<>>],
     torque |->
        [load_combination |-> combo_name, element_id |-> name, member_id |-> name,
         max_torque |-> answer.torque[1], min_torque |-> answer.torque[2],
         torque_at_locations |-> <<>>],
     end_forces |->
        [load_combination |-> combo_name, element_id |-> name, member_id |-> name,
         i_end_forces |-> Vector3D(answer.f[1], answer.f[2], answer.f[3]),
         i_end_moments |-> Vector3D(answer.f[4], answer.f[5], answer.f[6]),
         j_end_forces |-> Vector3D(answer.f[7], answer.f[8], answer.f[9]),
         j_end_moments |-> Vector3D(answer.f[10], answer.f[11], answer.f[12])],
     deflection_x |->
        [load_combination |-> combo_name, element_id |-> name, member_id |-> name,
         direction |-> "dx", max_deflection |-> answer.dx[1],
         min_deflection |-> answer.dx[2], deflection_at_locations |-> <<>>],
     deflection_y |->
        [load_combination |-> combo_name, element_id |-> name, member_id |-> name,
         direction |-> "dy", max_deflection |-> answer.dy[1],
         min_deflection |-> answer.dy[2], deflection_at_locations |-> <<>>],
     deflection_z |->
        [load_combination |-> combo_name, element_id |-> name, member_id |-> name,
         direction |-> "dz", max_deflection |-> answer.dz[1],
         min_deflection |-> answer.dz[2], deflection_at_locations |-> <<>>],
     relative_deflection_y |-> None, relative_deflection_z |-> None]

\* Faulty variant: the corners in row order rather than around the element.
CornerCoords_RowOrder == << <<-1, -1>>, <<1, -1>>, <<-1, 1>>, <<1, 1>> >>

CornerCoords == << <<-1, -1>>, <<1, -1>>, <<1, 1>>, <<-1, 1>> >>
CornerNames == <<"i", "j", "m", "n">>

PlateStress(x, y, r) == [x |-> x, y |-> y, sx |-> r[1], sy |-> r[2], txy |-> r[3]]
PlateMoment(x, y, r) == [x |-> x, y |-> y, mx |-> r[1], my |-> r[2], mxy |-> r[3]]

\* What the plate handle's evaluators return at natural coordinates (xi, eta)
\* for a combination: values that tell the point and the combination apart.
ComboShift(combo_name) ==
    IF combo_name = "ULS_1" THEN 100 ELSE IF combo_name = "SLS" THEN 200 ELSE 300
SolverMembrane(plate, xi, eta, combo_name) ==
    <<plate.s + xi, plate.s + eta, plate.s + ComboShift(combo_name)>>
SolverMoment(plate, xi, eta, combo_name) ==
    <<2 * plate.s + xi, 2 * plate.s + eta, 2 * plate.s + ComboShift(combo_name)>>

\* hasattr(pynite_plate, 'type') and pynite_plate.type == 'Rect'
IsRect(pynite_plate) == pynite_plate.type.some /\ pynite_plate.type.val = "Rect"

create_plate_results_from_pynite(pynite_plate, combo_name) ==
    [load_combination |-> combo_name,
     element_id |-> pynite_plate.name,
     plate_id |-> pynite_plate.name,
     element_type |-> IF IsRect(pynite_plate) THEN "Plate" ELSE "Quad",
     corner_stresses |->
        IF pynite_plate.has_membrane
        THEN [i \in 1..4 |->
                [key |-> CornerNames[i],
                 val |-> PlateStress(CornerCoords[i][1], CornerCoords[i][2],
                            SolverMembrane(pynite_plate, CornerCoords[i][1],
                                           CornerCoords[i][2], combo_name))]]
        ELSE <<>>,
     corner_moments |->
        IF pynite_plate.has_moment
        THEN [i \in 1..4 |->
                [key |-> CornerNames[i],
                 val |-> PlateMoment(CornerCoords[i][1], CornerCoords[i][2],
                            SolverMoment(pynite_plate, CornerCoords[i][1],
                                         CornerCoords[i][2], combo_name))]]
        ELSE <<>>,
     center_stress |->
        IF pynite_plate.has_membrane
        THEN Some(PlateStress(0, 0, SolverMembrane(pynite_plate, 0, 0, combo_name)))
        ELSE None,
     center_moment |->
        IF pynite_plate.has_moment
        THEN Some(PlateMoment(0, 0, SolverMoment(pynite_plate, 0, 0, combo_name)))
        ELSE None]

\* A plate whose evaluators raise: the call raises as soon as one is used.
PlateRaises(pynite_plate) ==
    pynite_plate.raises /\ (pynite_plate.has_membrane \/ pynite_plate.has_moment)

\* PyNiteResults(analysis_summary=..., model_name=..., analysis_date=...)
PyNiteResults(analysis_summary, model_name, analysis_date) ==
    [analysis_summary |-> analysis_summary, model_name |-> model_name,
     analysis_date |-> analysis_date,
     load_combination_results |-> <<>>,
     global_max_displacement |-> None, global_max_reaction |-> None,
     global_max_member_force |-> None, global_max_member_moment |-> None,
     global_max_plate_stress |-> None]

EntriesOf(handles, combo_name, create(_, _)) ==
    [i \in 1..Len(handles) |->
        [key |-> handles[i].name, val |-> create(handles[i], combo_name)]]

MemberRaises(member, combo_name) == member.answers[combo_name].raises

\* One pass of the loop over the solver's load combinations: the
\* LoadCombinationResults of combo_name and the warnings printed on the way.
LoadCombinationResults(pm, combo_name) ==
    [combination_name |-> combo_name,
     nodal_displacements |->
        EntriesOf(pm.nodes, combo_name, create_nodal_displacement_from_pynite),
     nodal_reactions |->
        EntriesOf(SelectSeq(pm.nodes, LAMBDA n : n.supported), combo_name,
                  create_nodal_reaction_from_pynite),
     member_results |->
        EntriesOf(SelectSeq(pm.members, LAMBDA m : ~MemberRaises(m, combo_name)),
                  combo_name, create_member_results_from_pynite),
     plate_results |->
        EntriesOf(SelectSeq(pm.plates, LAMBDA p : ~PlateRaises(p)),
                  combo_name, create_plate_results_from_pynite)]

\* The lines printed by the two except clauses, members first: the name,
\* ": " and str(e), the text of the exception the solver raised.
ExtractionWarnings(pm, combo_name) ==
    LET ms == SelectSeq(pm.members, LAMBDA m : MemberRaises(m, combo_name))
        ps == SelectSeq(pm.plates, LAMBDA p : PlateRaises(p))
    IN  [i \in 1..Len(ms) |->
            "Warning: Could not extract results for member " \o ms[i].name
                \o ": " \o ms[i].answers[combo_name].message]
        \o [i \in 1..Len(ps) |->
            "Warning: Could not extract results for plate " \o ps[i].name
                \o ": " \o ps[i].message]

\* All values of one kind over every stored combination.
AllOf(lcr, field, value(_)) ==
    UNION { { value(lcr[c].val[field][i].val) : i \in 1..Len(lcr[c].val[field]) }
            : c \in 1..Len(lcr) }

MemberMomentPeak(member_result) ==
    MaxWith0({Abs(member_result.moment_y.max_moment),
              Abs(member_result.moment_y.min_moment),
              Abs(member_result.moment_z.max_moment),
              Abs(member_result.moment_z.min_moment)})

\* PyNiteResults.get_max_member_moment_by_combo
get_max_member_moment_by_combo(self, combo_name) ==
    IF ~HasKey(self.load_combination_results, combo_name) THEN None
    ELSE LET combo_results == Get(self.load_combination_results, combo_name).val IN
         Some(MaxWith0({MemberMomentPeak(combo_results.member_results[i].val) :
                            i \in 1..Len(combo_results.member_results)}))

\* The global extremes the workflow computes from the stored records.
WorkflowMaxMemberForce(member_result) ==
    MaxWith0({Abs(member_result.axial_force.max_axial),
              Abs(member_result.axial_force.min_axial)})

WorkflowMaxMemberMoment(member_result) ==
    MaxWith0({Abs(member_result.moment_y.max_moment),
              Abs(member_result.moment_z.max_moment)})

DisplacementMagnitude(disp) == Magnitude(disp.displacement)
ReactionMagnitude(reaction) == Magnitude(reaction.force)

\* What a member's queries do for one combination: the <<max, min>> its
\* extremum queries return and the vector f() returns, or an exception with
\* its message.  The shear, torque and deflection queries answer 0.0.
MemberAnswer(raises, message, axial, My, Mz, f) ==
    [raises |-> raises, message |-> message, axial |-> axial, My |-> My,
     Mz |-> Mz, f |-> f, Fy |-> <<0, 0>>, Fz |-> <<0, 0>>, torque |-> <<0, 0>>,
     dx |-> <<0, 0>>, dy |-> <<0, 0>>, dz |-> <<0, 0>>]

\* A 12-entry end force vector in equilibrium along the member.
EndForces(a) == <<a, 0, 0, 0, 0, 0, -a, 0, 0, 0, 0, 0>>

MemberAnswers ==
    { MemberAnswer(FALSE, "", <<5, -2>>, <<4, -9>>, <<0, 0>>, EndForces(5)),
      MemberAnswer(FALSE, "", <<1, -7>>, <<4, -2>>, <<6, 1>>, EndForces(-7)),
      MemberAnswer(FALSE, "", <<0, 0>>, <<0, 0>>, <<-3, -7>>, EndForces(0)),
      MemberAnswer(TRUE, "no results", <<0, 0>>, <<0, 0>>, <<0, 0>>, EndForces(0)),
      MemberAnswer(TRUE, "", <<0, 0>>, <<0, 0>>, <<0, 0>>, EndForces(0)) }

PlateHandle(name, type, has_membrane, has_moment, s, raises, message) ==
    [name |-> name, type |-> type, has_membrane |-> has_membrane,
     has_moment |-> has_moment, s |-> s, raises |-> raises, message |-> message]

\* Plate and quad handles of every kind: with type 'Rect', 'Quad' or no type
\* attribute, with and without each evaluator, evaluators that raise.
PlateHandles ==
    { PlateHandle(name, type, has_membrane, has_moment, s, raises,
                  IF raises THEN "plate not solved" ELSE "") :
        name \in {"P1", "Q1"}, type \in {Some("Rect"), Some("Quad"), NoRef},
        has_membrane \in BOOLEAN, has_moment \in BOOLEAN, s \in {10, 40},
        raises \in BOOLEAN }

\* What the analysis leaves in the solver is the solver's doing.  A solution
\* is one such outcome: scale sizes the nodal answers, and first[k] is what
\* the queries of every other member, starting with the first, do under the
\* k-th load combination.
Solutions == [scale : {1, 2}, first : [1..3 -> MemberAnswers]]

SolvedNode(pm, solution, i) ==
    LET name == SolverNames(pm, "add_node")[i]
        combos == LoadCombos(pm)
        a(k) == solution.scale * ((i + k) % 3)
        supported == SolverSupported(pm, name)
    IN  [name |-> name, supported |-> supported,
         D |-> [k \in 1..Len(combos) |->
                  [key |-> combos[k], val |-> <<3 * a(k), 0, -4 * a(k)>>]],
         R |-> [k \in 1..Len(combos) |-> [key |-> combos[k], val |-> <<0, 0, a(k)>>]],
         RxnF |-> IF supported
                  THEN [k \in 1..Len(combos) |->
                          [key |-> combos[k], val |-> <<2 * a(k), -a(k), 2 * a(k)>>]]
                  ELSE <<>>,
         RxnM |-> IF supported
                  THEN [k \in 1..Len(combos) |->
                          [key |-> combos[k], val |-> <<0, a(k), 0>>]]
                  ELSE <<>>]

SolvedMember(pm, solution, i) ==
    LET combos == LoadCombos(pm) IN
    [name |-> SolverNames(pm, "add_member")[i],
     answers |-> [c \in SeqToSet(combos) |->
        LET k == CHOOSE j \in 1..Len(combos) : combos[j] = c IN
        IF i % 2 = 1 /\ k <= 3 THEN solution.first[k]
        ELSE MemberAnswer(FALSE, "", <<i, -k>>, <<k, -k>>, <<1, -1>>, EndForces(i))]]

\* The solver model once analyze_linear has returned: pynite_model.load_combos,
\* .nodes, .members and .plates as the workflow reads them.  Nodes, members
\* and combinations are the registered ones; the translator registers every
\* plate with add_quad, so .plates holds what add_plate registered.
AnalysedModel(pm, solution) ==
    [created |-> TRUE,
     calls |-> pm.calls \o run_analysis(TRUE, <<"l", "i", "n", "e", "a", "r">>, <<>>).calls,
     load_combos |-> LoadCombos(pm),
     nodes |-> [i \in 1..Len(SolverNames(pm, "add_node")) |->
                  SolvedNode(pm, solution, i)],
     members |-> [i \in 1..Len(SolverNames(pm, "add_member")) |->
                  SolvedMember(pm, solution, i)],
     plates |-> [i \in 1..Len(SolverNames(pm, "add_plate")) |->
                  PlateHandle(SolverNames(pm, "add_plate")[i], Some("Rect"),
                              TRUE, TRUE, 10 * i, FALSE, "")]]

\* -- print_results_summary and demonstrate_model_usage --

Rule40 == "========================================"
Rule60 == "============================================================"

\* f"{x:.6f}" and f"{x:.2f}" on a float holding a whole number.
format_6f(x) == str_int(x) \o ".000000"
format_2f(x) == str_int(x) \o ".00"

\* ', '.join(names)
RECURSIVE join(_)
join(names) ==
    IF names = <<>> THEN ""
    ELSE IF Len(names) = 1 THEN names[1]
    ELSE names[1] \o ", " \o join(Tail(names))

RECURSIVE Flatten(_)
Flatten(lists) == IF lists = <<>> THEN <<>> ELSE Head(lists) \o Flatten(Tail(lists))

First3(d) == IF Len(d) < 3 THEN Len(d) ELSE 3

\* PyNiteResults.get_all_combinations
get_all_combinations(self) == KeySeq(self.load_combination_results)

\* PyNiteResults.get_nodal_displacement, .get_member_results, .get_plate_results
get_nodal_displacement(self, node_id, combo_name) ==
    IF HasKey(self.load_combination_results, combo_name)
    THEN LET d == Get(self.load_combination_results, combo_name).val.nodal_displacements
         IN  IF HasKey(d, node_id) THEN Some(Get(d, node_id).val) ELSE None
    ELSE None

get_member_results(self, member_id, combo_name) ==
    IF HasKey(self.load_combination_results, combo_name)
    THEN LET d == Get(self.load_combination_results, combo_name).val.member_results
         IN  IF HasKey(d, member_id) THEN Some(Get(d, member_id).val) ELSE None
    ELSE None

get_plate_results(self, plate_id, combo_name) ==
    IF HasKey(self.load_combination_results, combo_name)
    THEN LET d == Get(self.load_combination_results, combo_name).val.plate_results
         IN  IF HasKey(d, plate_id) THEN Some(Get(d, plate_id).val) ELSE None
    ELSE None

\* PyNiteResults.get_max_displacement_by_combo
get_max_displacement_by_combo(self, combo_name) ==
    IF ~HasKey(self.load_combination_results, combo_name) THEN None
    ELSE LET combo_results == Get(self.load_combination_results, combo_name).val IN
         Some(MaxWith0({DisplacementMagnitude(combo_results.nodal_displacements[i].val) :
                            i \in 1..Len(combo_results.nodal_displacements)}))

\* The lines under "Sample Results for ...": the first three displacements,
\* every reaction, the first three members.
SampleLines(first_combo, combo_results) ==
    LET nd == combo_results.nodal_displacements
        nr == combo_results.nodal_reactions
        mr == combo_results.member_results
    IN  << "\nSample Results for '" \o first_combo \o "':",
           "  Nodal Displacements (first 3):" >>
        \o [i \in 1..First3(nd) |->
              "    Node " \o nd[i].key
              \o ": DX=" \o format_6f(nd[i].val.displacement.x)
              \o ", DY=" \o format_6f(nd[i].val.displacement.y)
              \o ", DZ=" \o format_6f(nd[i].val.displacement.z)]
        \o (IF nr = <<>> THEN <<>>
            ELSE << "  Nodal Reactions:" >>
                 \o [i \in 1..Len(nr) |->
                       "    Node " \o nr[i].key
                       \o ": FX=" \o format_2f(nr[i].val.force.x)
                       \o ", FY=" \o format_2f(nr[i].val.force.y)
                       \o ", FZ=" \o format_2f(nr[i].val.force.z)])
        \o << "  Member Results (first 3):" >>
        \o Flatten([i \in 1..First3(mr) |->
              << "    Member " \o mr[i].key \o ":",
                 "      Max Axial: " \o format_2f(mr[i].val.axial_force.max_axial),
                 "      Max Moment Y: " \o format_2f(mr[i].val.moment_y.max_moment),
                 "      Max Moment Z: " \o format_2f(mr[i].val.moment_z.max_moment) >>])

\* print_results_summary(results): the lines it prints.
print_results_summary(r) ==
    LET summary == r.analysis_summary
        lcr == r.load_combination_results
    IN  << "\n" \o Rule60, "ANALYSIS RESULTS SUMMARY", Rule60,
           "Model: " \o r.model_name,
           "Analysis Type: " \o summary.analysis_type,
           "Number of Nodes: " \o str_int(summary.num_nodes),
           "Number of Members: " \o str_int(summary.num_members),
           "Number of Plates: " \o str_int(summary.num_plates),
           "Number of Load Combinations: " \o str_int(summary.num_load_combinations),
           "\nGlobal Extremes:",
           "  Max Displacement: " \o format_6f(r.global_max_displacement.val),
           "  Max Reaction: " \o format_2f(r.global_max_reaction.val),
           "  Max Member Force: " \o format_2f(r.global_max_member_force.val),
           "  Max Member Moment: " \o format_2f(r.global_max_member_moment.val),
           "\nLoad Combinations: " \o join(get_all_combinations(r)) >>
        \o (IF lcr = <<>> THEN <<>> ELSE SampleLines(lcr[1].key, lcr[1].val))

\* -- results.model_dump_json(indent=2) --
\* The JSON text pydantic writes for the results: every model is an object
\* whose members are its fields in declaration order, those of BaseResult
\* first, a dict is an object of its entries in insertion order, None is
\* null; with indent=2 every member and item has a line of its own, two
\* spaces deeper than the brackets that hold it, and an empty dict or list is
\* {} or [].  The strings here need no escaping.

JsonStr(s) == "\"" \o s \o "\""

\* A float holding a whole number.
JsonFloat(x) == str_int(x) \o ".0"

JsonOptionalFloat(v) == IF v.some THEN JsonFloat(v.val) ELSE "null"

RECURSIVE Indent(_)
Indent(depth) == IF depth = 0 THEN "" ELSE "  " \o Indent(depth - 1)

\* The lines of a container's items at depth, separated by commas.
RECURSIVE JsonLines(_, _)
JsonLines(items, depth) ==
    IF Len(items) = 1 THEN Indent(depth) \o items[1]
    ELSE Indent(depth) \o items[1] \o ",\n" \o JsonLines(Tail(items), depth)

\* members: <<name, text>> pairs, the texts written for depth + 1.
JsonObject(members, depth) ==
    IF members = <<>> THEN "{}"
    ELSE "{\n"
         \o JsonLines([i \in 1..Len(members) |->
                          JsonStr(members[i][1]) \o ": " \o members[i][2]],
                      depth + 1)
         \o "\n" \o Indent(depth) \o "}"

JsonArray(items, depth) ==
    IF items = <<>> THEN "[]"
    ELSE "[\n" \o JsonLines(items, depth + 1) \o "\n" \o Indent(depth) \o "]"

JsonVector3D(v, depth) ==
    JsonObject(
           << <<"x", JsonFloat(v.x)>>,
              <<"y", JsonFloat(v.y)>>,
              <<"z", JsonFloat(v.z)>> >>,
        depth)

JsonLocationResult(l, depth) ==
    JsonObject(
           << <<"location", JsonFloat(l.location)>>,
              <<"value", JsonFloat(l.value)>> >>,
        depth)

JsonLocations(l, depth) ==
    JsonArray([i \in 1..Len(l) |-> JsonLocationResult(l[i], depth + 1)], depth)

JsonNodalDisplacement(d, depth) ==
    JsonObject(
           << <<"load_combination", JsonStr(d.load_combination)>>,
              <<"element_id", JsonStr(d.element_id)>>,
              <<"node_id", JsonStr(d.node_id)>>,
              <<"displacement", JsonVector3D(d.displacement, depth + 1)>>,
              <<"rotation", JsonVector3D(d.rotation, depth + 1)>> >>,
        depth)

JsonNodalReaction(r, depth) ==
    JsonObject(
           << <<"load_combination", JsonStr(r.load_combination)>>,
              <<"element_id", JsonStr(r.element_id)>>,
              <<"node_id", JsonStr(r.node_id)>>,
              <<"force", JsonVector3D(r.force, depth + 1)>>,
              <<"moment", JsonVector3D(r.moment, depth + 1)>> >>,
        depth)

JsonMemberAxialForce(a, depth) ==
    JsonObject(
           << <<"load_combination", JsonStr(a.load_combination)>>,
              <<"element_id", JsonStr(a.element_id)>>,
              <<"member_id", JsonStr(a.member_id)>>,
              <<"max_axial", JsonFloat(a.max_axial)>>,
              <<"min_axial", JsonFloat(a.min_axial)>>,
              <<"axial_at_locations", JsonLocations(a.axial_at_locations, depth + 1)>> >>,
        depth)

JsonMemberShearForce(f, depth) ==
    JsonObject(
           << <<"load_combination", JsonStr(f.load_combination)>>,
              <<"element_id", JsonStr(f.element_id)>>,
              <<"member_id", JsonStr(f.member_id)>>,
              <<"direction", JsonStr(f.direction)>>,
              <<"max_shear", JsonFloat(f.max_shear)>>,
              <<"min_shear", JsonFloat(f.min_shear)>>,
              <<"shear_at_locations", JsonLocations(f.shear_at_locations, depth + 1)>> >>,
        depth)

JsonMemberMoment(m, depth) ==
    JsonObject(
           << <<"load_combination", JsonStr(m.load_combination)>>,
              <<"element_id", JsonStr(m.element_id)>>,
              <<"member_id", JsonStr(m.member_id)>>,
              <<"direction", JsonStr(m.direction)>>,
              <<"max_moment", JsonFloat(m.max_moment)>>,
              <<"min_moment", JsonFloat(m.min_moment)>>,
              <<"moment_at_locations", JsonLocations(m.moment_at_locations, depth + 1)>> >>,
        depth)

JsonMemberTorque(t, depth) ==
    JsonObject(
           << <<"load_combination", JsonStr(t.load_combination)>>,
              <<"element_id", JsonStr(t.element_id)>>,
              <<"member_id", JsonStr(t.member_id)>>,
              <<"max_torque", JsonFloat(t.max_torque)>>,
              <<"min_torque", JsonFloat(t.min_torque)>>,
              <<"torque_at_locations", JsonLocations(t.torque_at_locations, depth + 1)>> >>,
        depth)

JsonMemberEndForces(e, depth) ==
    JsonObject(
           << <<"load_combination", JsonStr(e.load_combination)>>,
              <<"element_id", JsonStr(e.element_id)>>,
              <<"member_id", JsonStr(e.member_id)>>,
              <<"i_end_forces", JsonVector3D(e.i_end_forces, depth + 1)>>,
              <<"i_end_moments", JsonVector3D(e.i_end_moments, depth + 1)>>,
              <<"j_end_forces", JsonVector3D(e.j_end_forces, depth + 1)>>,
              <<"j_end_moments", JsonVector3D(e.j_end_moments, depth + 1)>> >>,
        depth)

JsonMemberDeflection(d, depth) ==
    JsonObject(
           << <<"load_combination", JsonStr(d.load_combination)>>,
              <<"element_id", JsonStr(d.element_id)>>,
              <<"member_id", JsonStr(d.member_id)>>,
              <<"direction", JsonStr(d.direction)>>,
              <<"max_deflection", JsonFloat(d.max_deflection)>>,
              <<"min_deflection", JsonFloat(d.min_deflection)>>,
              <<"deflection_at_locations", JsonLocations(d.deflection_at_locations, depth + 1)>> >>,
        depth)

JsonMemberRelativeDeflection(d, depth) ==
    JsonObject(
           << <<"load_combination", JsonStr(d.load_combination)>>,
              <<"element_id", JsonStr(d.element_id)>>,
              <<"member_id", JsonStr(d.member_id)>>,
              <<"direction", JsonStr(d.direction)>>,
              <<"relative_deflection_at_locations", JsonLocations(d.relative_deflection_at_locations, depth + 1)>> >>,
        depth)

JsonOptionalRelativeDeflection(v, depth) ==
    IF v.some THEN JsonMemberRelativeDeflection(v.val, depth) ELSE "null"

JsonMemberResults(m, depth) ==
    JsonObject(
           << <<"load_combination", JsonStr(m.load_combination)>>,
              <<"element_id", JsonStr(m.element_id)>>,
              <<"member_id", JsonStr(m.member_id)>>,
              <<"axial_force", JsonMemberAxialForce(m.axial_force, depth + 1)>>,
              <<"shear_force_y", JsonMemberShearForce(m.shear_force_y, depth + 1)>>,
              <<"shear_force_z", JsonMemberShearForce(m.shear_force_z, depth + 1)>>,
              <<"moment_y", JsonMemberMoment(m.moment_y, depth + 1)>>,
              <<"moment_z", JsonMemberMoment(m.moment_z, depth + 1)>>,
              <<"torque", JsonMemberTorque(m.torque, depth + 1)>>,
              <<"end_forces", JsonMemberEndForces(m.end_forces, depth + 1)>>,
              <<"deflection_x", JsonMemberDeflection(m.deflection_x, depth + 1)>>,
              <<"deflection_y", JsonMemberDeflection(m.deflection_y, depth + 1)>>,
              <<"deflection_z", JsonMemberDeflection(m.deflection_z, depth + 1)>>,
              <<"relative_deflection_y", JsonOptionalRelativeDeflection(m.relative_deflection_y, depth + 1)>>,
              <<"relative_deflection_z", JsonOptionalRelativeDeflection(m.relative_deflection_z, depth + 1)>> >>,
        depth)

JsonPlateStress(p, depth) ==
    JsonObject(
           << <<"x", JsonFloat(p.x)>>,
              <<"y", JsonFloat(p.y)>>,
              <<"sx", JsonFloat(p.sx)>>,
              <<"sy", JsonFloat(p.sy)>>,
              <<"txy", JsonFloat(p.txy)>> >>,
        depth)

JsonPlateMoment(p, depth) ==
    JsonObject(
           << <<"x", JsonFloat(p.x)>>,
              <<"y", JsonFloat(p.y)>>,
              <<"mx", JsonFloat(p.mx)>>,
              <<"my", JsonFloat(p.my)>>,
              <<"mxy", JsonFloat(p.mxy)>> >>,
        depth)

\* membrane_stresses, bending_moments and shear_forces are left at their
\* default by create_plate_results_from_pynite: empty lists.
JsonPlateResults(p, depth) ==
    JsonObject(
           << <<"load_combination", JsonStr(p.load_combination)>>,
              <<"element_id", JsonStr(p.element_id)>>,
              <<"plate_id", JsonStr(p.plate_id)>>,
              <<"element_type", JsonStr(p.element_type)>>,
              <<"membrane_stresses", JsonArray(<<>>, depth + 1)>>,
              <<"bending_moments", JsonArray(<<>>, depth + 1)>>,
              <<"shear_forces", JsonArray(<<>>, depth + 1)>>,
              <<"corner_stresses",
                JsonObject([i \in 1..Len(p.corner_stresses) |->
                               <<p.corner_stresses[i].key,
                                 JsonPlateStress(p.corner_stresses[i].val, depth + 2)>>],
                           depth + 1)>>,
              <<"corner_moments",
                JsonObject([i \in 1..Len(p.corner_moments) |->
                               <<p.corner_moments[i].key,
                                 JsonPlateMoment(p.corner_moments[i].val, depth + 2)>>],
                           depth + 1)>>,
              <<"center_stress",
                IF p.center_stress.some
                THEN JsonPlateStress(p.center_stress.val, depth + 1) ELSE "null">>,
              <<"center_moment",
                IF p.center_moment.some
                THEN JsonPlateMoment(p.center_moment.val, depth + 1) ELSE "null">> >>,
        depth)

JsonLoadCombinationResults(c, depth) ==
    JsonObject(
           << <<"combination_name", JsonStr(c.combination_name)>>,
              <<"nodal_displacements",
                JsonObject([i \in 1..Len(c.nodal_displacements) |->
                               <<c.nodal_displacements[i].key,
                                 JsonNodalDisplacement(c.nodal_displacements[i].val,
                                                       depth + 2)>>],
                           depth + 1)>>,
              <<"nodal_reactions",
                JsonObject([i \in 1..Len(c.nodal_reactions) |->
                               <<c.nodal_reactions[i].key,
                                 JsonNodalReaction(c.nodal_reactions[i].val, depth + 2)>>],
                           depth + 1)>>,
              <<"member_results",
                JsonObject([i \in 1..Len(c.member_results) |->
                               <<c.member_results[i].key,
                                 JsonMemberResults(c.member_results[i].val, depth + 2)>>],
                           depth + 1)>>,
              <<"plate_results",
                JsonObject([i \in 1..Len(c.plate_results) |->
                               <<c.plate_results[i].key,
                                 JsonPlateResults(c.plate_results[i].val, depth + 2)>>],
                           depth + 1)>> >>,
        depth)

\* convergence_info is set by nothing in the workflow: None.
JsonAnalysisSummary(a, depth) ==
    JsonObject(
           << <<"analysis_type", JsonStr(a.analysis_type)>>,
              <<"solution_time", JsonOptionalFloat(a.solution_time)>>,
              <<"num_nodes", str_int(a.num_nodes)>>,
              <<"num_members", str_int(a.num_members)>>,
              <<"num_plates", str_int(a.num_plates)>>,
              <<"num_load_combinations", str_int(a.num_load_combinations)>>,
              <<"convergence_info", "null">> >>,
        depth)

\* PyNiteResults.model_dump_json(indent=2)
model_dump_json(self) ==
    JsonObject(
           << <<"analysis_summary", JsonAnalysisSummary(self.analysis_summary, 1)>>,
              <<"model_name", JsonStr(self.model_name)>>,
              <<"analysis_date", JsonStr(self.analysis_date)>>,
              <<"load_combination_results",
                JsonObject([i \in 1..Len(self.load_combination_results) |->
                               <<self.load_combination_results[i].key,
                                 JsonLoadCombinationResults(
                                     self.load_combination_results[i].val, 2)>>],
                           1)>>,
              <<"global_max_displacement",
                JsonOptionalFloat(self.global_max_displacement)>>,
              <<"global_max_reaction", JsonOptionalFloat(self.global_max_reaction)>>,
              <<"global_max_member_force",
                JsonOptionalFloat(self.global_max_member_force)>>,
              <<"global_max_member_moment",
                JsonOptionalFloat(self.global_max_member_moment)>>,
              <<"global_max_plate_stress",
                JsonOptionalFloat(self.global_max_plate_stress)>> >>,
        0)

\* json_str[:200]
First200(json_str) ==
    SubSeq(json_str, 1, IF Len(json_str) < 200 THEN Len(json_str) ELSE 200)

\* What the try block of lines 251-256 meets: the text model_dump_json
\* returns, or an exception raised while serialising, with its message.
JsonAnswers(r) ==
    { [raises |-> FALSE, json_str |-> model_dump_json(r), message |-> ""],
      [raises |-> TRUE, json_str |-> "",
       message |-> "Unable to serialize unknown type"] }

MemberLines(member_id, member_result) ==
    IF ~member_result.some THEN <<>>
    ELSE << "\nMember results for member " \o member_id \o ":",
            "  Max Axial Force: " \o format_2f(member_result.val.axial_force.max_axial),
            "  Min Axial Force: " \o format_2f(member_result.val.axial_force.min_axial),
            "  Max Moment Y: " \o format_2f(member_result.val.moment_y.max_moment),
            "  Max Moment Z: " \o format_2f(member_result.val.moment_z.max_moment),
            "  End Forces (i-end): Fx="
                \o format_2f(member_result.val.end_forces.i_end_forces.x) >>

PlateLines(plate_id, plate_result) ==
    IF ~plate_result.some THEN <<>>
    ELSE << "\nPlate results for plate " \o plate_id \o ":",
            "  Element Type: " \o plate_result.val.element_type >>
         \o (IF plate_result.val.center_stress.some
             THEN << "  Center Stress: Sx="
                       \o format_2f(plate_result.val.center_stress.val.sx)
                       \o ", Sy=" \o format_2f(plate_result.val.center_stress.val.sy) >>
             ELSE <<>>)
         \o (IF plate_result.val.center_moment.some
             THEN << "  Center Moment: Mx="
                       \o format_2f(plate_result.val.center_moment.val.mx)
                       \o ", My=" \o format_2f(plate_result.val.center_moment.val.my) >>
             ELSE <<>>)

\* demonstrate_model_usage(results): the lines it prints and the exception
\* that ends it; json is what model_dump_json does.  list(...)[0] on an
\* empty mapping raises IndexError.
demonstrate_model_usage(r, json) ==
    LET lcr == r.load_combination_results
        header == << "\n" \o Rule60, "DEMONSTRATING MODEL USAGE", Rule60 >>
    IN
    IF lcr = <<>>
    THEN [out |-> header, exc |-> "IndexError", message |-> "list index out of range"]
    ELSE
    LET combo_name == lcr[1].key
        using == << "Using load combination: " \o combo_name >>
    IN
    IF lcr[1].val.nodal_displacements = <<>>
    THEN [out |-> header \o using, exc |-> "IndexError",
          message |-> "list index out of range"]
    ELSE
    LET node_id == lcr[1].val.nodal_displacements[1].key
        nodal_disp == get_nodal_displacement(r, node_id, combo_name)
        mr == lcr[1].val.member_results
        pr == lcr[1].val.plate_results
        max_disp_combo == get_max_displacement_by_combo(r, combo_name)
        max_moment_combo == get_max_member_moment_by_combo(r, combo_name)
    IN  [out |->
            header \o using
            \o (IF nodal_disp.some
                THEN << "\nNodeal displacement for node " \o node_id \o ":",
                        "  DX: " \o format_6f(nodal_disp.val.displacement.x),
                        "  DY: " \o format_6f(nodal_disp.val.displacement.y),
                        "  DZ: " \o format_6f(nodal_disp.val.displacement.z) >>
                ELSE <<>>)
            \o (IF mr = <<>> THEN <<>>
                ELSE MemberLines(mr[1].key,
                                 get_member_results(r, mr[1].key, combo_name)))
            \o (IF pr = <<>> THEN <<>>
                ELSE PlateLines(pr[1].key,
                                get_plate_results(r, pr[1].key, combo_name)))
            \o << "\nUtility method results for " \o combo_name \o ":",
                  "  Max displacement in combo: " \o format_6f(max_disp_combo.val),
                  "  Max member moment in combo: " \o format_2f(max_moment_combo.val),
                  "\nJSON serialization test:" >>
            \o (IF json.raises
                THEN << "  JSON serialization failed: " \o json.message >>
                ELSE << "  Successfully serialized to JSON ("
                            \o str_int(Len(json.json_str)) \o " characters)",
                        "  First 200 characters: " \o First200(json.json_str)
                            \o "..." >>),
         exc |-> "", message |-> ""]

\* The lines main prints after the two functions have returned.
CompletionLines ==
    << "\n" \o Rule60, "TEST COMPLETED SUCCESSFULLY!", Rule60,
       "\nThe Pydantic models successfully captured all PyNite analysis results.",
       "Key features demonstrated:",
       "- Comprehensive result organization by load combination",
       "- Type-safe access to all result types",
       "- Utility methods for common queries",
       "- JSON serialization capability",
       "- Structured data with proper validation" >>

\* -- main() of test_pynite_results_models.py, step by step --

\* main is entered: nothing printed, no translator, no results.  arg is the
\* Model create_two_storey_structure() will return.
ResultsInit ==
    /\ arg = SampleModel
    /\ aidea_model = [some |-> FALSE]
    /\ pynite_model = NoSolver
    /\ shear_walls = <<>>
    /\ stdout = <<>>
    /\ pc = "main"
    /\ exc = ""
    /\ ret = NoReturn
    /\ results = None

\* Lines 261-262 and, inside run_analysis_and_extract_results, lines 42-43.
MainBegin ==
    /\ pc = "main"
    /\ stdout' = stdout \o << "Testing PyNite Results Models", Rule40,
                              "Creating two-storey structure..." >>
    /\ pc' = "created"
    /\ UNCHANGED <<arg, aidea_model, pynite_model, shear_walls, exc, ret, results>>

\* Lines 45-47: translate_model(aidea_model) on a new translator.
TranslateSample ==
    LET r == TranslateOutcome(arg) IN
    /\ pc = "created"
    /\ aidea_model' = [some |-> TRUE]
    /\ pynite_model' = [created |-> TRUE, calls |-> r.calls]
    /\ stdout' = stdout \o << "Translating to PyNite..." >> \o r.out
    /\ shear_walls' = IF r.exc = ""
                      THEN _translate_shear_walls(arg.shear_walls, 1, shear_walls)
                      ELSE shear_walls
    /\ pc' = IF r.exc = "" THEN "translated" ELSE "raised"
    /\ exc' = r.exc
    /\ ret' = [method |-> "translate_model", n |-> ret.n + 1, exc |-> r.exc,
               message |-> r.exc]
    /\ arg' = SourceAfter(arg)
    /\ UNCHANGED results

\* Lines 49-50: run_analysis('linear'); the solver returns with a solution.
Analyse ==
    \E solution \in Solutions :
        /\ pc = "translated"
        /\ stdout' = Append(stdout, "Running analysis...")
        /\ pynite_model' = AnalysedModel(pynite_model, solution)
        /\ pc' = "analysed"
        /\ ret' = [method |-> "run_analysis", n |-> ret.n + 1, exc |-> "",
                   message |-> ""]
        /\ UNCHANGED <<arg, aidea_model, shear_walls, exc, results>>

\* Lines 49-50 when the solver raises instead.
AnalysisMessages == {"singular stiffness matrix"}

AnalyseRaises ==
    \E message \in AnalysisMessages :
        /\ pc = "translated"
        /\ stdout' = Append(stdout, "Running analysis...")
        /\ pynite_model' = [pynite_model EXCEPT !.calls =
              @ \o run_analysis(TRUE, <<"l", "i", "n", "e", "a", "r">>, <<>>).calls]
        /\ pc' = "raised"
        /\ exc' = "SolverError"
        /\ ret' = [method |-> "run_analysis", n |-> ret.n + 1, exc |-> "SolverError",
                   message |-> message]
        /\ UNCHANGED <<arg, aidea_model, shear_walls, results>>

\* The print of line 52, then AnalysisSummary(...) and PyNiteResults(...).
CreateResults ==
    /\ pc = "analysed"
    /\ stdout' = Append(stdout, "Extracting results into Pydantic models...")
    /\ results' = PyNiteResults(
            [analysis_type |-> "Linear", solution_time |-> None,
             convergence_info |-> None,
             num_nodes |-> Len(pynite_model.nodes),
             num_members |-> Len(pynite_model.members),
             num_plates |-> Len(pynite_model.plates),
             num_load_combinations |-> Len(pynite_model.load_combos)],
            "Two-Storey Sample Structure", "2024-01-01")
    /\ pc' = "combinations"
    /\ UNCHANGED <<arg, aidea_model, pynite_model, shear_walls, exc, ret>>

\* One iteration of the loop over pynite_model.load_combos: the next
\* combination not yet stored.
ExtractCombination ==
    /\ pc = "combinations"
    /\ Len(results.load_combination_results) < Len(pynite_model.load_combos)
    /\ LET combo_name ==
               pynite_model.load_combos[Len(results.load_combination_results) + 1]
       IN  /\ stdout' = stdout
                \o <<"Processing load combination: " \o combo_name>>
                \o ExtractionWarnings(pynite_model, combo_name)
           /\ results' = [results EXCEPT !.load_combination_results =
                  DictSet(@, combo_name,
                          LoadCombinationResults(pynite_model, combo_name))]
    /\ UNCHANGED <<arg, aidea_model, pynite_model, shear_walls, pc, exc, ret>>

\* "Calculating global extremes" and the four assignments that follow.
GlobalExtremes ==
    /\ pc = "combinations"
    /\ Len(results.load_combination_results) = Len(pynite_model.load_combos)
    /\ LET lcr == results.load_combination_results IN
       results' = [results EXCEPT
          !.global_max_displacement =
              Some(MaxWith0(AllOf(lcr, "nodal_displacements", DisplacementMagnitude))),
          !.global_max_reaction =
              Some(MaxWith0(AllOf(lcr, "nodal_reactions", ReactionMagnitude))),
          !.global_max_member_force =
              Some(MaxWith0(AllOf(lcr, "member_results", WorkflowMaxMemberForce))),
          !.global_max_member_moment =
              Some(MaxWith0(AllOf(lcr, "member_results", WorkflowMaxMemberMoment)))]
    /\ stdout' = Append(stdout, "Calculating global extremes...")
    /\ pc' = "extracted"
    /\ UNCHANGED <<arg, aidea_model, pynite_model, shear_walls, exc, ret>>

\* Line 275: print_results_summary(results).
PrintResultsSummary ==
    /\ pc = "extracted"
    /\ stdout' = stdout \o print_results_summary(results)
    /\ pc' = "summarised"
    /\ UNCHANGED <<arg, aidea_model, pynite_model, shear_walls, exc, ret, results>>

\* Line 278: demonstrate_model_usage(results).  When it returns, ret keeps
\* what the two utility methods returned for the first combination; when it
\* raises, the exception and its message.
DemonstrateModelUsage ==
    /\ pc = "summarised"
    /\ \E json \in JsonAnswers(results) :
        LET r == demonstrate_model_usage(results, json) IN
        /\ stdout' = stdout \o r.out
        /\ pc' = IF r.exc = "" THEN "demonstrated" ELSE "raised"
        /\ exc' = r.exc
        /\ ret' =
              IF r.exc = ""
              THEN LET combo_name == results.load_combination_results[1].key IN
                   [method |-> "demonstrate_model_usage", n |-> ret.n + 1,
                    exc |-> r.exc, message |-> r.message,
                    combo_name |-> combo_name,
                    max_disp_combo |->
                        get_max_displacement_by_combo(results, combo_name),
                    max_moment_combo |->
                        get_max_member_moment_by_combo(results, combo_name)]
              ELSE [method |-> "demonstrate_model_usage", n |-> ret.n + 1,
                    exc |-> r.exc, message |-> r.message]
    /\ UNCHANGED <<arg, aidea_model, pynite_model, shear_walls, results>>

\* Lines 280-289.
MainCompleted ==
    /\ pc = "demonstrated"
    /\ stdout' = stdout \o CompletionLines
    /\ pc' = "done"
    /\ UNCHANGED <<arg, aidea_model, pynite_model, shear_walls, exc, ret, results>>

\* Lines 294-295: an exception of the workflow ends main with one line.
MainExcept ==
    /\ pc = "raised"
    /\ stdout' = Append(stdout, "Error during testing: " \o ret.message)
    /\ pc' = "failed"
    /\ UNCHANGED <<arg, aidea_model, pynite_model, shear_walls, exc, ret, results>>

ResultsNext ==
    \/ MainBegin
    \/ TranslateSample
    \/ Analyse
    \/ AnalyseRaises
    \/ CreateResults
    \/ ExtractCombination
    \/ GlobalExtremes
    \/ PrintResultsSummary
    \/ DemonstrateModelUsage
    \/ MainCompleted
    \/ MainExcept

ResultsSpec == ResultsInit /\ [][ResultsNext]_vars

-----------------------------------------------------------------------------
(* create_plate_results_from_pynite on its own: one call on a plate handle   *)
(* and a combination name.                                                   *)

PlateCombos == {"ULS_1", "ULS_2", "SLS"}

PlateInit ==
    /\ arg \in [pynite_plate : PlateHandles, combo_name : PlateCombos]
    /\ aidea_model = [some |-> FALSE]
    /\ pynite_model = NoSolver
    /\ shear_walls = <<>>
    /\ stdout = <<>>
    /\ pc = "plate"
    /\ exc = ""
    /\ ret = NoReturn
    /\ results = None

CreatePlateResults ==
    /\ pc = "plate"
    /\ ret.n = 0
    /\ ret' = [method |-> "create_plate_results_from_pynite", n |-> 1,
               exc |-> IF PlateRaises(arg.pynite_plate) THEN "SolverError" ELSE "",
               value |-> IF PlateRaises(arg.pynite_plate) THEN None
                         ELSE Some(create_plate_results_from_pynite(
                                      arg.pynite_plate, arg.combo_name))]
    /\ UNCHANGED <<arg, aidea_model, pynite_model, shear_walls, stdout, pc, exc,
                   results>>

PlateNext == CreatePlateResults

PlateSpec == PlateInit /\ [][PlateNext]_vars

-----------------------------------------------------------------------------
(* Schema construction (src/aidea/aidea_model.py): what pydantic does with   *)
(* the keyword arguments of Material(...), given the class's declarations.   *)

\* One declaration: the annotated type, whether the annotation is Optional[.],
\* and whether the declaration has a default ("= None").
Field(name, type, optional, has_default) ==
    [name |-> name, type |-> type, optional |-> optional, has_default |-> has_default]

\* class Material, in declaration order.
MaterialFields ==
    << Field("id", "int", TRUE, FALSE),
       Field("name", "str", FALSE, FALSE),
       Field("elasticity_modulus", "float", FALSE, FALSE),
       Field("shear_modulus", "float", TRUE, FALSE),
       Field("density", "float", FALSE, FALSE),
       Field("poissons_ratio", "float", FALSE, FALSE),
       Field("yield_strength", "float", TRUE, FALSE),
       Field("ultimate_strength", "float", TRUE, FALSE),
       Field("thermal_expansion_coefficient", "float", TRUE, FALSE),
       Field("aux", "Any", TRUE, TRUE) >>

\* A field is required when its declaration has no default; an Optional[.]
\* annotation allows None as a value and does not supply one.
FieldRequired(field) == ~field.has_default

\* Python values a caller passes: None, an int, a float (a rational), and a
\* str, which carries its text and the number the text spells, if any.
PyNone == [type |-> "NoneType"]
PyInt(i) == [type |-> "int", val |-> Z(i)]
PyFloat(n, d) == [type |-> "float", val |-> Q(n, d)]
PyStr(text, number) == [type |-> "str", text |-> text, number |-> number]

\* The number a value stands for under pydantic's default (lax) mode: an int
\* or a float is its value, a str is the number it spells; nothing else is
\* a number.
AsNumber(value) ==
    CASE value.type = "int" -> Some(value.val)
      [] value.type = "float" -> Some(value.val)
      [] value.type = "str" -> value.number
      [] OTHER -> None

\* Whether validation accepts the value for the field: anything for Any, None
\* for an Optional annotation, a str for str, a number for float, and for int
\* a number without fractional part.
ValueFits(field, value) ==
    \/ field.type = "Any"
    \/ value.type = "NoneType" /\ field.optional
    \/ field.type = "str" /\ value.type = "str"
    \/ field.type = "float" /\ AsNumber(value).some
    \/ field.type = "int" /\ AsNumber(value).some /\ AsNumber(value).val.d = 1

\* The value the instance holds for an accepted value: converted to the
\* annotated type.
Coerced(field, value) ==
    IF field.type = "Any" \/ value.type = "NoneType" \/ field.type = "str" THEN value
    ELSE IF field.type = "float"
    THEN [type |-> "float", val |-> AsNumber(value).val]
    ELSE [type |-> "int", val |-> AsNumber(value).val]

\* The fields validation reports: "missing" and type errors.
ValidationErrors(fields, kwargs) ==
    { fields[i].name : i \in { j \in 1..Len(fields) :
        IF HasKey(kwargs, fields[j].name)
        THEN ~ValueFits(fields[j], Get(kwargs, fields[j].name).val)
        ELSE FieldRequired(fields[j]) } }

\* Material(**kwargs): the instance, or ValidationError.
ConstructMaterialOutcome(kwargs) ==
    IF ValidationErrors(MaterialFields, kwargs) # {}
    THEN [exc |-> "ValidationError", value |-> <<>>]
    ELSE [exc |-> "",
          value |-> [i \in 1..Len(MaterialFields) |->
              [key |-> MaterialFields[i].name,
               val |-> IF HasKey(kwargs, MaterialFields[i].name)
                       THEN Coerced(MaterialFields[i],
                                    Get(kwargs, MaterialFields[i].name).val)
                       ELSE PyNone]]]

\* Keyword arguments.  id and shear_modulus: omitted, None, an int, a float
\* with and without fractional part, a text that spells an integer and one
\* that spells no number; the other Optional-annotated fields omitted, None or
\* a float; of the remaining fields at most one omitted, given as another
\* type, as a text that spells a number, or as None.
OptionalNames ==
    <<"id", "shear_modulus", "yield_strength", "ultimate_strength",
      "thermal_expansion_coefficient">>

Omitted == [type |-> "omitted"]

OptionalValues(name) ==
    IF name \in {"id", "shear_modulus"}
    THEN {Omitted, PyNone, PyInt(7), PyFloat(5, 2), PyFloat(2, 1),
          PyStr("12", Some(Z(12))), PyStr("steel", None)}
    ELSE {Omitted, PyNone, PyFloat(355, 1)}

PlainFields ==
    << [key |-> "name", val |-> PyStr("Steel", None)],
       [key |-> "elasticity_modulus", val |-> PyFloat(210000, 1)],
       [key |-> "density", val |-> PyFloat(7850, 1)],
       [key |-> "poissons_ratio", val |-> PyFloat(3, 10)] >>

PlainChoices ==
    {PlainFields}
    \cup { SelectSeq(PlainFields, LAMBDA e : e.key # PlainFields[i].key) : i \in 1..4 }
    \cup { [PlainFields EXCEPT ![i].val =
              IF @.type = "str" THEN PyInt(7) ELSE PyStr("steel", None)] : i \in 1..4 }
    \cup { [PlainFields EXCEPT ![i].val = PyStr("0.3", Some(Q(3, 10)))] : i \in 1..4 }
    \cup { [PlainFields EXCEPT ![i].val = PyNone] : i \in 1..4 }
    \cup { [PlainFields EXCEPT ![3].val = PyInt(7850)] }

MaterialKwargs(kwargs) ==
    \E plain \in PlainChoices :
    \E given \in { g \in [1..Len(OptionalNames) ->
                             OptionalValues("id") \cup OptionalValues("yield_strength")] :
                        \A i \in 1..Len(OptionalNames) :
                            g[i] \in OptionalValues(OptionalNames[i]) } :
        kwargs = plain \o
            [i \in 1..Cardinality({j \in 1..Len(OptionalNames) : given[j] # Omitted}) |->
                LET j == CHOOSE j \in 1..Len(OptionalNames) :
                            /\ given[j] # Omitted
                            /\ Cardinality({h \in 1..j : given[h] # Omitted}) = i
                IN  [key |-> OptionalNames[j], val |-> given[j]]]

SchemaInit ==
    /\ MaterialKwargs(arg)
    /\ aidea_model = [some |-> FALSE]
    /\ pynite_model = NoSolver
    /\ shear_walls = <<>>
    /\ stdout = <<>>
    /\ pc = "schema"
    /\ exc = ""
    /\ ret = NoReturn
    /\ results = None

ConstructMaterial ==
    /\ pc = "schema"
    /\ ret.n = 0
    /\ LET r == ConstructMaterialOutcome(arg) IN
       ret' = [method |-> "Material", n |-> 1, exc |-> r.exc, value |-> r.value]
    /\ UNCHANGED <<arg, aidea_model, pynite_model, shear_walls, stdout, pc, exc, results>>

SchemaNext == ConstructMaterial

SchemaSpec == SchemaInit /\ [][SchemaNext]_vars

-----------------------------------------------------------------------------
(* Properties *)

calls == pynite_model.calls
Registered(op) == SelectSeq(calls, LAMBDA c : c.op = op)
RegisteredBy(op, key) == SelectSeq(calls, LAMBDA c : c.op = op /\ c.by = key)
Printed(line) == Cardinality({i \in 1..Len(stdout) : stdout[i] = line})

\* The steps of translate_model that have returned.
AfterSupports == {"members", "plates", "loads", "load_combinations",
                  "shear_walls", "returned"}
AfterMembers == AfterSupports \ {"members"}
AfterPlates == AfterMembers \ {"plates"}
AfterLoads == AfterPlates \ {"loads"}
AfterLoadCombinations == AfterLoads \ {"load_combinations"}

\* Every cross-reference of m names a key of the mapping it refers to.
RefsResolve(m) ==
    /\ \A i \in 1..Len(m.sections) :
          HasKey(m.materials, str_int(m.sections[i].material_id))
    /\ \A i \in 1..Len(m.members) :
          /\ HasKey(m.nodes, str_int(m.members[i].node_A))
          /\ HasKey(m.nodes, str_int(m.members[i].node_B))
          /\ HasKey(m.sections, str_int(m.members[i].section_id))
    /\ \A i \in 1..Len(m.supports) :
          HasKey(m.nodes, str_int(m.supports[i].node))
    /\ \A i \in 1..Len(m.plates) :
          /\ HasKey(m.materials, str_int(m.plates[i].material_id))
          /\ \A k \in 1..Len(m.plates[i].nodes) :
                HasKey(m.nodes, str_int(m.plates[i].nodes[k]))
    /\ \A i \in 1..Len(m.point_loads) :
          /\ m.point_loads[i].node.some =>
                HasKey(m.nodes, m.point_loads[i].node.val)
          /\ m.point_loads[i].member.some =>
                HasKey(m.members, m.point_loads[i].member.val)
    /\ \A i \in 1..Len(m.distributed_loads) :
          HasKey(m.members, str_ref(m.distributed_loads[i].member))
    /\ \A i \in 1..Len(m.area_loads) :
          m.area_loads[i].plate_id \in 1..Len(m.plates)

AllPlatesHave4Nodes(m) == \A i \in 1..Len(m.plates) : Len(m.plates[i].nodes) = 4

NamesOf(op) == {c.name : c \in SeqToSet(Registered(op))}

\* C1: for every model whose cross-references resolve and whose plates all
\* list 4 nodes, translate_model returns, and the node, member, quad and
\* load-combination names of the external model are exactly the keys of the
\* source mappings.  (Stated for the end of the call: returned or raised.)
C1_NamesAreSourceKeys ==
    (pc \in {"returned", "raised"} /\ RefsResolve(arg) /\ AllPlatesHave4Nodes(arg))
    => /\ pc = "returned"
       /\ NamesOf("add_node") = Keys(arg.nodes)
       /\ Len(Registered("add_node")) = Len(arg.nodes)
       /\ NamesOf("add_member") = Keys(arg.members)
       /\ Len(Registered("add_member")) = Len(arg.members)
       /\ NamesOf("add_quad") = Keys(arg.plates)
       /\ Len(Registered("add_quad")) = Len(arg.plates)
       /\ NamesOf("add_load_combo") = Keys(arg.load_combinations)
       /\ Len(Registered("add_load_combo")) = Len(arg.load_combinations)

\* C2: once the load-combination step has returned, the add_load_combo calls
\* are one per source combination, in order, named by the mapping key, and
\* the factor mapping of each is exactly the combination's extra fields, with
\* the same names, values and order; name and criteria are not among them.
C2_FactorsAreExtraFields ==
    pc \in AfterLoadCombinations =>
        LET reg == Registered("add_load_combo") IN
        /\ Len(reg) = Len(arg.load_combinations)
        /\ \A i \in 1..Len(reg) :
              LET lc == arg.load_combinations[i]
                  f == reg[i].factors
              IN  /\ reg[i].name = lc.key
                  /\ Len(f) = Len(lc.extra)
                  /\ \A k \in 1..Len(f) : f[k].key \notin {"name", "criteria"}
                  /\ \A k \in 1..Len(f) : f[k].key = lc.extra[k].key
                  /\ \A k \in 1..Len(f) : f[k].val = lc.extra[k].val

C2_Witness ==
    /\ pc = "returned"
    /\ \E i \in 1..Len(arg.load_combinations) :
          /\ Len(arg.load_combinations[i].extra) = 2
          /\ arg.load_combinations[i].extra[1].key = "Wind"
          /\ Len(Registered("add_load_combo")[i].factors) = 2

IsT(c) == c \in {"T", "t"}

\* C3: every def_support call is made for a support whose restraint code has
\* at least 6 characters, names the node str(support.node), and carries the
\* flags DX, DY, DZ, RX, RY, RZ with flag k true exactly when character k of
\* the code is 'T' or 't'; once the supports step has returned, every
\* support has exactly one such call.
C3_RestraintFlags ==
    /\ \A c \in SeqToSet(Registered("def_support")) :
          LET support == Get(arg.supports, c.by)
              code == support.restraint_code
          IN  /\ Len(code) >= 6
              /\ c.node_name = str_int(support.node)
              /\ c.support_DX = IsT(code[1])
              /\ c.support_DY = IsT(code[2])
              /\ c.support_DZ = IsT(code[3])
              /\ c.support_RX = IsT(code[4])
              /\ c.support_RY = IsT(code[5])
              /\ c.support_RZ = IsT(code[6])
    /\ pc \in AfterSupports =>
          \A i \in 1..Len(arg.supports) :
              Len(RegisteredBy("def_support", arg.supports[i].key)) = 1

C3_Witness ==
    /\ pc \in AfterSupports
    /\ \E c \in SeqToSet(Registered("def_support")) :
          LET code == Get(arg.supports, c.by).restraint_code IN
          /\ Len(code) = 7
          /\ code[2] = "t" /\ c.support_DY
          /\ code[5] = "F" /\ ~c.support_RY
          /\ code[6] = "T" /\ c.support_RZ

IsR(c) == c \in {"R", "r"}
DofNames == <<"Dx", "Dy", "Dz", "Rx", "Ry", "Rz">>

\* The flag a release dict gives a name: true only when it is present and true.
Released(releases, name) == HasKey(releases, name) /\ Get(releases, name).val

EndReleasesOk(releases, fixity, end) ==
    /\ \A k \in 1..6 :
          Released(releases, DofNames[k] \o end)
          <=> (Len(fixity) >= 6 /\ IsR(fixity[k]))
    /\ Len(fixity) < 6 =>
          \A k \in 1..6 : ~HasKey(releases, DofNames[k] \o end)

\* The only exceptions translate_model raises come from a restraint code
\* shorter than 6 characters, a member whose section does not resolve, or a
\* material with poissons_ratio = -1 and no shear modulus.
RaisedOnlyFor(m) ==
    pc = "raised" =>
        \/ exc = "IndexError" /\ \E i \in 1..Len(m.supports) :
                                    Len(m.supports[i].restraint_code) < 6
        \/ exc = "KeyError" /\ ~RefsResolve(m)
        \/ exc = "ZeroDivisionError"

\* C4: every def_releases call gives, for each end, a release flag for DOF k
\* that is true exactly when that end's fixity code has at least 6
\* characters and its k-th character is 'R' or 'r'; a code shorter than 6
\* characters contributes no entry for its end and leaves the other end's
\* flags as they are; once the members step has returned every member has
\* one def_releases call, and no fixity code makes translate_model raise.
C4_ReleaseFlags ==
    /\ \A c \in SeqToSet(Registered("def_releases")) :
          LET member == Get(arg.members, c.by) IN
          /\ c.member_name = member.key
          /\ EndReleasesOk(c.releases, member.fixity_A, "i")
          /\ EndReleasesOk(c.releases, member.fixity_B, "j")
    /\ pc \in AfterMembers =>
          \A i \in 1..Len(arg.members) :
              Len(RegisteredBy("def_releases", arg.members[i].key)) = 1
    /\ RaisedOnlyFor(arg)

C4_Witness ==
    /\ pc \in AfterMembers
    /\ \E c \in SeqToSet(Registered("def_releases")) :
          LET member == Get(arg.members, c.by) IN
          /\ Len(member.fixity_A) = 1
          /\ Len(member.fixity_B) = 7
          /\ Len(c.releases) = 6
          /\ Released(c.releases, "Rzj")

\* Once the plates step has returned, a plate whose node list does not
\* have 4 entries has no add_quad call and exactly one warning line, every
\* 4-node plate has exactly one add_quad call naming its nodes in listed
\* order.
C5_PlatesState ==
    pc \in AfterPlates =>
          \A i \in 1..Len(arg.plates) :
              LET plate == arg.plates[i]
                  reg == RegisteredBy("add_quad", plate.key)
                  n == Len(plate.nodes)
              IN  IF n = 4
                  THEN /\ Len(reg) = 1
                       /\ reg[1].name = plate.key
                       /\ reg[1].i_node = str_int(plate.nodes[1])
                       /\ reg[1].j_node = str_int(plate.nodes[2])
                       /\ reg[1].m_node = str_int(plate.nodes[3])
                       /\ reg[1].n_node = str_int(plate.nodes[4])
                       /\ Printed("Warning: Plate " \o plate.key \o " has 4"
                            \o " nodes. Only 4 node plates are supported in this implementation.") = 0
                  ELSE /\ Len(reg) = 0
                       /\ Printed("Warning: Plate " \o plate.key \o " has "
                            \o str_int(n)
                            \o " nodes. Only 4 node plates are supported in this implementation.") = 1

\* C5: a plate whose node list does not have 4 entries is skipped with one
\* warning while the 4-node plates of the model are registered (the state
\* property above, in every reachable state), and the plates step of
\* translate_model always returns: it never raises.
C5_NonQuadPlatesSkipped ==
    /\ []C5_PlatesState
    /\ [][pc = "plates" => pc' = "loads"]_vars

C5_Witness ==
    /\ pc = "returned"
    /\ Len(arg.plates) = 2
    /\ Len(arg.plates[1].nodes) = 5
    /\ arg.plates[2].nodes = <<4, 3, 2, 1>>
    /\ Len(Registered("add_quad")) = 1
    /\ Registered("add_quad")[1].i_node = "4"
    /\ Len(stdout) >= 1

NonZero(a) == a.n # 0

\* The nodal loads expected of a point load with a node reference.
ExpectedNodeLoads(p) ==
    LET tag(axis) == (IF p.type = "n" THEN "F" ELSE "M") \o axis
        one(axis, mag) ==
            IF NonZero(mag)
            THEN << [direction |-> tag(axis), P |-> mag] >> ELSE <<>>
    IN  one("X", p.x_mag) \o one("Y", p.y_mag) \o one("Z", p.z_mag)

\* C6: once the loads step has returned, a point load with a node reference
\* has one add_node_load call per nonzero component among x_mag, y_mag,
\* z_mag, each with that component's magnitude, the node, case = load_group
\* and the direction FX/FY/FZ for type 'n' or MX/MY/MZ for type 'm'; with all
\* three components 0 it has none.
C6_NodalLoadsPerNonzeroComponent ==
    pc \in AfterLoads =>
        \A i \in 1..Len(arg.point_loads) :
            LET p == arg.point_loads[i]
                reg == RegisteredBy("add_node_load", p.key)
                want == ExpectedNodeLoads(p)
            IN  p.node.some /\ p.node.val # "" =>
                  /\ Len(reg) = Cardinality({a \in {"x", "y", "z"} :
                        NonZero(CASE a = "x" -> p.x_mag
                                  [] a = "y" -> p.y_mag
                                  [] a = "z" -> p.z_mag)})
                  /\ Len(reg) = Len(want)
                  /\ \A k \in 1..Len(reg) :
                        /\ reg[k].direction = want[k].direction
                        /\ reg[k].P = want[k].P
                        /\ reg[k].node_name = p.node.val
                        /\ reg[k].case = p.load_group

C6_Witness ==
    /\ pc = "returned"
    /\ \E i, j \in 1..Len(arg.point_loads) :
          /\ arg.point_loads[i].type = "m"
          /\ arg.point_loads[i].node.some
          /\ Len(RegisteredBy("add_node_load", arg.point_loads[i].key)) = 2
          /\ RegisteredBy("add_node_load", arg.point_loads[i].key)[2].direction = "MZ"
          /\ arg.point_loads[j].node.some
          /\ RegisteredBy("add_node_load", arg.point_loads[j].key) = <<>>

\* The square of the distance between the end nodes of a member.
LengthSquared(m, member) ==
    LET a == Get(m.nodes, str_int(member.node_A))
        b == Get(m.nodes, str_int(member.node_B))
    IN  RAdd(RAdd(RMul(RSub(b.x, a.x), RSub(b.x, a.x)),
                  RMul(RSub(b.y, a.y), RSub(b.y, a.y))),
             RMul(RSub(b.z, a.z), RSub(b.z, a.z)))

\* x = length * position / 100 for the length >= 0 with length^2 = len2,
\* stated without a square root.
IsLengthFraction(x, len2, position) ==
    /\ RMul(RMul(x, x), Z(10000)) = RMul(len2, RMul(position, position))
    /\ (x.n > 0) = (position.n > 0 /\ len2.n > 0)
    /\ (x.n < 0) = (position.n < 0 /\ len2.n > 0)

\* C7: every add_member_dist_load call made for a distributed load has
\* x1 = length * position_A / 100 and x2 = length * position_B / 100, where
\* length is the 3-D Euclidean distance between the member's end nodes.
C7_DistLoadPositions ==
    \A c \in SeqToSet(Registered("add_member_dist_load")) :
        LET dl == Get(arg.distributed_loads, c.by)
            member == Get(arg.members, str_ref(dl.member))
            len2 == LengthSquared(arg, member)
        IN  /\ c.member_name = member.key
            /\ IsLengthFraction(c.x1, len2, dl.position_A)
            /\ IsLengthFraction(c.x2, len2, dl.position_B)

C7_Witness ==
    /\ pc = "returned"
    /\ \E c \in SeqToSet(Registered("add_member_dist_load")) :
          /\ Get(arg.distributed_loads, c.by).member = IntRef(7)
          /\ c.x1 = Q(13, 4) /\ c.x2 = Q(13, 2)
    /\ \E c \in SeqToSet(Registered("add_member_dist_load")) :
          c.x1 = Z(0) /\ c.x2 = Z(12)

AxisTags == << <<"Fx", "FX">>, <<"Fy", "FY">>, <<"Fz", "FZ">> >>
AxisMags(dl) == << <<dl.x_mag_A, dl.x_mag_B>>, <<dl.y_mag_A, dl.y_mag_B>>,
                   <<dl.z_mag_A, dl.z_mag_B>> >>

\* C8: once the loads step has returned, a distributed load whose member
\* resolves has, for each axis, exactly one add_member_dist_load call when
\* the magnitude at A or at B is nonzero and none when both are zero; the
\* call's direction is the local tag (Fx/Fy/Fz) for axes = 'local' and the
\* global tag (FX/FY/FZ) for axes = 'global', with w1 and w2 the magnitudes
\* at A and B and case = load_group.
C8_DistLoadPerAxis ==
    pc \in AfterLoads =>
        \A i \in 1..Len(arg.distributed_loads) :
            LET dl == arg.distributed_loads[i] IN
            HasKey(arg.members, str_ref(dl.member)) =>
              \A a \in 1..3 :
                LET reg == SelectSeq(RegisteredBy("add_member_dist_load", dl.key),
                              LAMBDA c : c.direction \in SeqToSet(AxisTags[a]))
                    mags == AxisMags(dl)[a]
                IN  IF NonZero(mags[1]) \/ NonZero(mags[2])
                    THEN /\ Len(reg) = 1
                         /\ dl.axes = "local" => reg[1].direction = AxisTags[a][1]
                         /\ dl.axes = "global" => reg[1].direction = AxisTags[a][2]
                         /\ reg[1].w1 = mags[1]
                         /\ reg[1].w2 = mags[2]
                         /\ reg[1].case = dl.load_group
                    ELSE Len(reg) = 0

C8_Witness ==
    /\ pc = "returned"
    /\ \E i \in 1..Len(arg.distributed_loads) :
          LET dl == arg.distributed_loads[i]
              reg == RegisteredBy("add_member_dist_load", dl.key)
          IN  /\ dl.axes = "local"
              /\ Len(reg) = 2
              /\ reg[1].direction = "Fx" /\ reg[1].w1 = Z(0) /\ reg[1].w2 = Z(4)
              /\ reg[2].direction = "Fz"

NonzeroAxes(dl) ==
    Cardinality({a \in 1..3 : NonZero(AxisMags(dl)[a][1]) \/ NonZero(AxisMags(dl)[a][2])})

\* The loads after the distributed loads, and the load combinations and shear
\* walls, as the returned call leaves them.
LaterEntitiesTranslated ==
    /\ \A i \in 1..Len(arg.area_loads) :
          LET pl == arg.area_loads[i] IN
          (/\ pl.plate_id \in 1..Len(arg.plates)
           /\ NonZero(pl.z_mag)
           /\ PlateNameTruthy(PlateName(arg, pl.plate_id))) =>
              Len(RegisteredBy("add_quad_surface_pressure", pl.key)) = 1
    /\ \A i \in 1..Len(arg.self_weight) :
          LET sw == arg.self_weight[i] IN
          Len(RegisteredBy("add_member_self_weight", sw.key))
              = Cardinality({a \in 1..3 : NonZero(<<sw.x, sw.y, sw.z>>[a])})
    /\ Len(Registered("add_load_combo")) = Len(arg.load_combinations)
    /\ Keys(shear_walls) = Keys(arg.shear_walls)

DistLoadState ==
    /\ pc \in AfterLoads =>
          \A i \in 1..Len(arg.distributed_loads) :
              LET dl == arg.distributed_loads[i]
                  name == str_ref(dl.member)
                  reg == RegisteredBy("add_member_dist_load", dl.key)
                  warned == Printed("Warning: Could not find member " \o name
                                \o " for distributed load " \o dl.key)
              IN  IF HasKey(arg.members, name)
                  THEN Len(reg) = NonzeroAxes(dl) /\ warned = 0
                  ELSE Len(reg) = 0 /\ warned = 1
    /\ pc = "returned" => LaterEntitiesTranslated

MemberNodesResolve(m) ==
    \A i \in 1..Len(m.members) :
        /\ HasKey(m.nodes, str_int(m.members[i].node_A))
        /\ HasKey(m.nodes, str_int(m.members[i].node_B))

\* C9: a distributed load is placed (one call per nonzero axis, no warning)
\* if and only if str(load.member) is a key of Model.members; otherwise it
\* has no call and exactly one warning.  The loads step returns whatever the
\* member references are (the members' own nodes resolving), every step
\* after it returns, and the call ends with the later distributed loads, the
\* pressure loads, the self-weight entries, the load combinations and the
\* shear walls translated.
C9_UnresolvedMemberSkipped ==
    /\ []DistLoadState
    /\ [][(pc = "loads" /\ MemberNodesResolve(arg)) => pc' = "load_combinations"]_vars
    /\ [][(pc \in {"load_combinations", "shear_walls"}) => ~(pc' = "raised")]_vars

C9_Witness ==
    /\ pc = "returned"
    /\ Len(arg.distributed_loads) = 2
    /\ arg.distributed_loads[1].member = IntRef(9)
    /\ NonzeroAxes(arg.distributed_loads[1]) = 3
    /\ Printed("Warning: Could not find member 9 for distributed load DL1") = 1
    /\ RegisteredBy("add_member_dist_load", "DL1") = <<>>
    /\ Len(RegisteredBy("add_member_dist_load", "DL2")) = 1
    /\ Len(Registered("add_quad_surface_pressure")) = 1

PressureState ==
    /\ pc \in AfterLoads =>
          \A i \in 1..Len(arg.area_loads) :
              LET pl == arg.area_loads[i]
                  warned == Printed("Warning: Could not find plate for pressure load "
                                \o pl.key \o " with plate_id " \o str_int(pl.plate_id))
              IN  (pl.plate_id > Len(arg.plates) \/ pl.plate_id < 1) =>
                      /\ RegisteredBy("add_quad_surface_pressure", pl.key) = <<>>
                      /\ warned = 1
    /\ pc \in AfterLoads => LaterEntitiesTranslated!1 /\ LaterEntitiesTranslated!2

\* C10: a pressure load whose plate_id is greater than the number of plates,
\* or less than 1, has no add_quad_surface_pressure call and exactly one
\* warning; the loads step still returns, with the other pressure loads and
\* the self-weight entries registered.
C10_PressureOutOfRangeSkipped ==
    /\ []PressureState
    /\ [][(pc = "loads" /\ MemberNodesResolve(arg)) => ~(pc' = "raised")]_vars

C10_Witness ==
    /\ pc = "returned"
    /\ Len(arg.plates) = 2
    /\ Len(arg.area_loads) = 2
    /\ arg.area_loads[1].plate_id = 3
    /\ NonZero(arg.area_loads[1].z_mag)
    /\ Printed("Warning: Could not find plate for pressure load A1 with plate_id 3") = 1
    /\ Len(RegisteredBy("add_quad_surface_pressure", "A2")) = 1
    /\ Len(Registered("add_member_self_weight")) = 1

\* C11: once the loads step has returned, a pressure load with
\* 1 <= plate_id <= number of plates has exactly one
\* add_quad_surface_pressure call when z_mag is nonzero, on the plate whose
\* key stands at position plate_id of Model.plates, with pressure = z_mag and
\* case = load_group whatever x_mag and y_mag are, and no call when z_mag = 0.
C11_PressureOnOrdinalPlate ==
    pc \in AfterLoads =>
        \A i \in 1..Len(arg.area_loads) :
            LET pl == arg.area_loads[i]
                reg == RegisteredBy("add_quad_surface_pressure", pl.key)
            IN  pl.plate_id \in 1..Len(arg.plates) =>
                  IF NonZero(pl.z_mag)
                  THEN /\ Len(reg) = 1
                       /\ reg[1].quad_name = arg.plates[pl.plate_id].key
                       /\ reg[1].pressure = pl.z_mag
                       /\ reg[1].case = pl.load_group
                  ELSE Len(reg) = 0

\* C12: once the loads step has returned, every self-weight entry has one
\* add_member_self_weight call per nonzero multiplier, in x, y, z order, with
\* direction FX, FY or FZ, that multiplier as factor and case = load_group;
\* a zero multiplier has none, so an all-zero entry registers nothing.
C12_SelfWeightPerNonzeroAxis ==
    pc \in AfterLoads =>
        \A i \in 1..Len(arg.self_weight) :
            LET sw == arg.self_weight[i]
                reg == RegisteredBy("add_member_self_weight", sw.key)
                mult == <<sw.x, sw.y, sw.z>>
                tags == <<"FX", "FY", "FZ">>
            IN  \A a \in 1..3 :
                  LET of == SelectSeq(reg, LAMBDA c : c.global_direction = tags[a])
                  IN  /\ Len(reg) = Cardinality({b \in 1..3 : NonZero(mult[b])})
                      /\ IF NonZero(mult[a])
                         THEN /\ Len(of) = 1
                              /\ of[1].factor = mult[a]
                              /\ of[1].case = sw.load_group
                         ELSE Len(of) = 0

C12_Witness ==
    /\ pc = "returned"
    /\ Len(arg.self_weight) = 3
    /\ arg.self_weight[1].x = Z(0)
    /\ NonZero(arg.self_weight[1].y)
    /\ arg.self_weight[1].y # arg.self_weight[1].z
    /\ NonZero(arg.self_weight[1].z)
    /\ Len(RegisteredBy("add_member_self_weight", "SW")) = 2
    /\ RegisteredBy("add_member_self_weight", "SW")[1].global_direction = "FY"
    /\ RegisteredBy("add_member_self_weight", "SW2") = <<>>
    /\ Len(RegisteredBy("add_member_self_weight", "SW3")) = 1

\* C13: every add_material call is made under the key of its material, with
\* G the material's shear_modulus when one was supplied (is not None) and
\* E / (2 * (1 + nu)) when none was, and with the density and yield strength
\* of the material unchanged.
C13_ShearModulusWhenSupplied ==
    \A c \in SeqToSet(Registered("add_material")) :
        LET material == Get(arg.materials, c.by)
        IN  /\ c.name = material.key
            /\ c.rho = material.density
            /\ c.fy = material.yield_strength
            /\ c.G = IF material.shear_modulus.some
                     THEN material.shear_modulus.val
                     ELSE DerivedG(material)

\* The position of a solver call's kind in the order of translation.
Phase(op) ==
    CASE op = "add_material" -> 1
      [] op = "add_section" -> 2
      [] op = "add_node" -> 3
      [] op = "def_support" -> 4
      [] op \in {"add_member", "def_releases"} -> 5
      [] op = "add_quad" -> 6
      [] op \in {"add_node_load", "add_member_dist_load",
                 "add_quad_surface_pressure", "add_member_self_weight"} -> 7
      [] op = "add_load_combo" -> 8

\* The names a call refers to, by the kind of entity that holds them.
RefersTo(c, kind) ==
    CASE c.op = "def_support" /\ kind = "add_node" -> {c.node_name}
      [] c.op = "add_member" /\ kind = "add_node" -> {c.i_node, c.j_node}
      [] c.op = "add_member" /\ kind = "add_material" -> {c.material_name}
      [] c.op = "add_member" /\ kind = "add_section" -> {c.section_name}
      [] c.op = "add_quad" /\ kind = "add_node" ->
            {c.i_node, c.j_node, c.m_node, c.n_node}
      [] c.op = "add_quad" /\ kind = "add_material" -> {c.material_name}
      [] c.op = "add_node_load" /\ kind = "add_node" -> {c.node_name}
      [] c.op = "add_member_dist_load" /\ kind = "add_member" -> {c.member_name}
      [] c.op = "add_quad_surface_pressure" /\ kind = "add_quad" -> {c.quad_name}
      [] OTHER -> {}

\* C19: the solver calls made so far are in the order materials, sections,
\* nodes, supports, members, plates, loads, load combinations; an entity a
\* call refers to by name is registered before that call, never after; and
\* the shear walls are built only after all of these, when the call returns.
C19_TranslationOrder ==
    /\ \A i \in 1..(Len(calls) - 1) :
          Phase(calls[i].op) <= Phase(calls[i + 1].op)
    /\ \A j \in 1..Len(calls) :
          \A kind \in {"add_material", "add_section", "add_node",
                        "add_member", "add_quad"} :
              \A n \in RefersTo(calls[j], kind) :
                  \A i \in j..Len(calls) :
                      ~(calls[i].op = kind /\ calls[i].name = n)
    /\ \A k \in 1..Len(calls) :
          calls[k].op = "add_load_combo" =>
              \A i \in 1..Len(arg.self_weight) :
                  Len(RegisteredBy("add_member_self_weight", arg.self_weight[i].key))
                    = Cardinality({a \in 1..3 :
                        NonZero(<<arg.self_weight[i].x, arg.self_weight[i].y,
                                  arg.self_weight[i].z>>[a])})
    /\ shear_walls # <<>> =>
          /\ pc = "returned"
          /\ Len(Registered("add_load_combo")) = Len(arg.load_combinations)

C19_Witness ==
    /\ pc = "returned"
    /\ shear_walls # <<>>
    /\ \A op \in {"add_material", "add_section", "add_node", "def_support",
                  "add_member", "add_quad", "add_member_self_weight",
                  "add_load_combo"} : Registered(op) # <<>>
    /\ calls[Len(calls)].op = "add_load_combo"
    /\ calls[1].op = "add_material"

HasShortRestraintCode(m) ==
    \E i \in 1..Len(m.supports) : Len(m.supports[i].restraint_code) < 6

\* C20: translating a support whose restraint code has fewer than 6
\* characters does not raise; the support restrains nothing (its def_support
\* calls, if any, have all six flags false), and the supports after it and
\* the remaining steps are translated.
C20_ShortRestraintCodeIsNoOp ==
    HasShortRestraintCode(arg) =>
        /\ exc # "IndexError"
        /\ pc \in AfterSupports =>
              \A i \in 1..Len(arg.supports) :
                  LET support == arg.supports[i]
                      reg == RegisteredBy("def_support", support.key)
                  IN  IF Len(support.restraint_code) < 6
                      THEN \A k \in 1..Len(reg) :
                              ~(\/ reg[k].support_DX \/ reg[k].support_DY
                                \/ reg[k].support_DZ \/ reg[k].support_RX
                                \/ reg[k].support_RY \/ reg[k].support_RZ)
                      ELSE Len(reg) = 1

\* The solver analysis entry points invoked so far, on the frame model and
\* on the wall objects.
AnalysisCalls ==
    SelectSeq(calls, LAMBDA c : c.op \in {"analyze_linear", "analyze_PDelta", "analyze"})

WallAnalysisCalls ==
    {<<i, k>> \in (1..Len(shear_walls)) \X (1..20) :
        /\ k <= Len(shear_walls[i].val.calls)
        /\ shear_walls[i].val.calls[k].op \in {"generate", "analyze_linear"}}

\* C14: on a translator on which translate_model has never been called, a
\* call of run_analysis, get_results_summary, analyze_shear_walls or
\* get_shear_wall_results ends with an error, and no solver analysis entry
\* point has been invoked.
C14_UsageErrorBeforeTranslation ==
    (/\ ~pynite_model.created
     /\ ret.method \in {"run_analysis", "get_results_summary",
                        "analyze_shear_walls", "get_shear_wall_results"})
    => /\ ret.exc # ""
       /\ AnalysisCalls = <<>>
       /\ WallAnalysisCalls = {}

\* The entry point a tag selects, compared without regard to case; "" when
\* it selects none.
EntryPointOf(analysis_type) ==
    LET upper_tag(c) == CHOOSE u \in {"L", "I", "N", "E", "A", "R", "P", "D", "T", "O"} :
                            lower(u) = c
        same(t) == /\ Len(analysis_type) = Len(t)
                   /\ \A i \in 1..Len(t) : analysis_type[i] \in {t[i], upper_tag(t[i])}
    IN  IF same(<<"l", "i", "n", "e", "a", "r">>) THEN "analyze_linear"
        ELSE IF same(<<"p", "d", "e", "l", "t", "a">>) THEN "analyze_PDelta"
        ELSE IF same(<<"n", "o", "n", "l", "i", "n", "e", "a", "r">>) THEN "analyze"
        ELSE ""

\* C15: a run_analysis call on a translator that has a solver model appends
\* exactly one solver call, the entry point its tag selects without regard
\* to case, with the options as given, and ends without error; for a tag
\* that selects none it ends with an error and the solver is not called.
\* No wall object is touched either way.
C15_AnalysisDispatch ==
    [][(/\ ret'.n = ret.n + 1
        /\ ret'.method = "run_analysis"
        /\ pynite_model.created)
       => /\ shear_walls' = shear_walls
          /\ IF EntryPointOf(ret'.analysis_type) # ""
             THEN /\ ret'.exc = ""
                  /\ pynite_model'.calls = Append(pynite_model.calls,
                        [op |-> EntryPointOf(ret'.analysis_type),
                         kwargs |-> ret'.kwargs])
             ELSE /\ ret'.exc = "ValueError"
                  /\ pynite_model' = pynite_model]_vars

C15_Witness ==
    /\ pynite_model.created
    /\ ret.method = "run_analysis"
    /\ ret.analysis_type = <<"P", "D", "e", "l", "t", "a">>
    /\ ret.kwargs # <<>>
    /\ ret.exc = ""
    /\ Len(AnalysisCalls) = 1
    /\ calls[Len(calls)] = [op |-> "analyze_PDelta", kwargs |-> ret.kwargs]

\* C16: a get_results_summary call on a translator that has a solver model
\* ends without error whatever the extremum queries do; for every solver
\* member and every combination the entry exists with the six keys; when one
\* of the six queries raises all six values are 0, otherwise they are the
\* solver's values.
C16_MemberQueryErrorsBecomeZeros ==
    (ret.method = "get_results_summary" /\ pynite_model.created) =>
        /\ ret.exc = ""
        /\ KeySeq(ret.value.members) = SolverNames(pynite_model, "add_member")
        /\ \A mc \in MemberCombos(pynite_model) :
              /\ HasKey(ret.value.members, mc[1])
              /\ HasKey(Get(ret.value.members, mc[1]).val, mc[2])
              /\ LET e == Get(Get(ret.value.members, mc[1]).val, mc[2]).val
                 IN  /\ DOMAIN e = SeqToSet(ExtremumQueries)
                     /\ \A q \in DOMAIN e :
                           e[q] = IF ret.raisingOf[mc] # 0 THEN 0
                                  ELSE SolverExtremum(q)

C16_Witness ==
    /\ ret.method = "get_results_summary"
    /\ pynite_model.created
    /\ ret.exc = ""
    /\ Len(LoadCombos(pynite_model)) = 2
    /\ ret.raisingOf[<<"M1", "ULS_1">>] = 6
    /\ ret.raisingOf[<<"M1", "SLS">>] = 0
    /\ Get(Get(ret.value.members, "M1").val, "ULS_1").val.max_moment = 0
    /\ Get(Get(ret.value.members, "M1").val, "SLS").val.min_axial = -16

\* C17: a get_shear_wall_results call for a wall of the translator, whose
\* pier and beam queries do not raise, ends without error whatever the
\* stiffness queries do, with one entry per story: stiffness 0 and
\* max_displacement 0 when the story's query raises; otherwise the stiffness
\* returned, with max_displacement = 100 / stiffness when it is positive and
\* 0 when it is not.
C17_StoryStiffnessPlaceholder ==
    (/\ ret.method = "get_shear_wall_results"
     /\ HasKey(shear_walls, ret.wall_id)
     /\ ~SumForcesRaises(ret.elements))
    => /\ ret.exc = ""
       /\ Keys(ret.value.story_stiffness) = StoryNames(shear_walls, ret.wall_id)
       /\ \A story \in StoryNames(shear_walls, ret.wall_id) :
             LET e == Get(ret.value.story_stiffness, story).val
                 answer == ret.stiffness[story]
             IN  IF answer.raises
                 THEN e.stiffness = Z(0) /\ e.max_displacement = Z(0)
                 ELSE /\ e.stiffness = answer.value
                      /\ answer.value.n > 0 =>
                            RMul(e.max_displacement, answer.value) = Z(100)
                      /\ answer.value.n <= 0 => e.max_displacement = Z(0)

C17_Witness ==
    /\ ret.method = "get_shear_wall_results"
    /\ ret.wall_id = "SW_X1"
    /\ ret.exc = ""
    /\ ret.stiffness["Story 1"].raises
    /\ ret.stiffness["Story 2"] = Returns(Z(8))
    /\ Get(ret.value.story_stiffness, "Story 1").val.max_displacement = Z(0)
    /\ Get(ret.value.story_stiffness, "Story 2").val.max_displacement = Q(25, 2)

C18_WallCallsWitness ==
    /\ ret.n = 3
    /\ ret.method = "get_shear_wall_results"
    /\ ret.exc = ""
    /\ pc = "returned"
    /\ WallAnalysisCalls # {}
    /\ arg = [BaseModel EXCEPT !.shear_walls = <<WallX1, WallY1>>]

-----------------------------------------------------------------------------
(* Shear walls.                                                              *)

WallCalls(wall, ops) == SelectSeq(wall.calls, LAMBDA c : c.op \in ops)

WallItemCount(e) ==
    Len(e.materials) + Len(e.openings) + Len(e.flanges)
    + Len(e.supports) + Len(e.stories) + Len(e.loads)

WallReceives(wall, e) ==
    LET mats == WallCalls(wall, {"add_material"})
        opns == WallCalls(wall, {"add_opening"})
        flgs == WallCalls(wall, {"add_flange"})
        sups == WallCalls(wall, {"add_support"})
        stos == WallCalls(wall, {"add_story"})
        lds  == WallCalls(wall, {"add_shear", "add_axial"})
    IN  /\ Len(wall.calls) = WallItemCount(e)
        /\ Len(mats) = Len(e.materials)
        /\ \A j \in 1..Len(mats) :
              /\ mats[j].name = e.materials[j].name
              /\ mats[j].E = e.materials[j].elasticity_modulus
              /\ mats[j].G = e.materials[j].shear_modulus
              /\ mats[j].nu = e.materials[j].poissons_ratio
              /\ mats[j].rho = e.materials[j].density
              /\ mats[j].t = e.materials[j].thickness
        /\ Len(opns) = Len(e.openings)
        /\ \A j \in 1..Len(opns) :
              /\ opns[j].name = e.openings[j].name
              /\ opns[j].x_start = e.openings[j].x_start
              /\ opns[j].y_start = e.openings[j].y_start
              /\ opns[j].width = e.openings[j].width
              /\ opns[j].height = e.openings[j].height
        /\ Len(flgs) = Len(e.flanges)
        /\ \A j \in 1..Len(flgs) :
              /\ flgs[j].thickness = e.flanges[j].thickness
              /\ flgs[j].width = e.flanges[j].width
              /\ flgs[j].x = e.flanges[j].x_position
              /\ flgs[j].material = e.flanges[j].material_name
              /\ flgs[j].side = e.flanges[j].side
        /\ Len(sups) = Len(e.supports)
        /\ \A j \in 1..Len(sups) : sups[j].elevation = e.supports[j].elevation
        /\ Len(stos) = Len(e.stories)
        /\ \A j \in 1..Len(stos) :
              /\ stos[j].story_name = e.stories[j].story_name
              /\ stos[j].elevation = e.stories[j].elevation
        /\ Len(lds) = Len(e.loads)
        /\ \A j \in 1..Len(lds) :
              /\ lds[j].op = (IF e.loads[j].load_type = "shear"
                              THEN "add_shear" ELSE "add_axial")
              /\ lds[j].story_name = e.loads[j].story_name
              /\ lds[j].force = e.loads[j].force_magnitude
              /\ lds[j].case = e.loads[j].load_group

\* C21: after translate_model on a fresh translator, shear_walls holds one
\* wall per entry of Model.shear_walls under the same key; each wall carries
\* its entry's length, height, mesh size and cracking factor and has received
\* exactly that entry's materials, openings, flanges, supports, stories and
\* loads, one call per item in listed order, "shear" loads through add_shear
\* and "axial" loads through add_axial, and nothing else.
C21_OneWallPerEntry ==
    (pc = "returned") =>
        /\ KeySeq(shear_walls) = KeySeq(arg.shear_walls)
        /\ \A i \in 1..Len(arg.shear_walls) :
              LET e == arg.shear_walls[i]
                  wall == shear_walls[i].val
              IN  /\ wall.L = e.length
                  /\ wall.H = e.height
                  /\ wall.mesh_size = e.mesh_size
                  /\ wall.ky_mod = e.ky_modification_factor
                  /\ WallReceives(wall, e)

C21_Witness ==
    /\ pc = "returned"
    /\ KeySeq(arg.shear_walls) = <<"SW_X1", "SW_Y1">>
    /\ Len(shear_walls) = 2
    /\ Len(WallCalls(Get(shear_walls, "SW_X1").val, {"add_axial"})) = 1
    /\ Len(WallCalls(Get(shear_walls, "SW_X1").val, {"add_shear"})) = 1
    /\ Len(WallCalls(Get(shear_walls, "SW_Y1").val, {"add_flange"})) = 1

\* The shape of a returned wall result: wall_length = wall.L, wall_height =
\* wall.H and, under 'piers', 'coupling_beams' and 'story_stiffness', one
\* entry per pier, per coupling beam and per story of the wall.
WallResultShape ==
    LET wall == Get(shear_walls, ret.wall_id).val IN
    /\ ret.exc = ""
    /\ ret.value.wall_length = wall.L
    /\ ret.value.wall_height = wall.H
    /\ KeySeq(ret.value.piers) =
          [i \in 1..Len(ret.elements.piers) |-> ret.elements.piers[i].id]
    /\ KeySeq(ret.value.coupling_beams) =
          [i \in 1..Len(ret.elements.beams) |-> ret.elements.beams[i].id]
    /\ KeySeq(ret.value.story_stiffness) = WallStories(wall)

Aux22_EntriesHoldSolverValues ==
    (ret.method = "get_shear_wall_results" /\ ret.exc = "") =>
        /\ \A i \in 1..Len(ret.value.piers) :
              LET e == ret.value.piers[i].val
                  pier == ret.elements.piers[i]
              IN  /\ DOMAIN e = {"pier_id", "x_position", "y_position", "width",
                                 "height", "axial_force", "shear_force", "moment",
                                 "shear_span_ratio"}
                  /\ <<e.pier_id, e.x_position, e.y_position, e.width, e.height>> =
                        <<pier.id, pier.x, pier.y, pier.width, pier.height>>
                  /\ <<e.axial_force, e.moment, e.shear_force, e.shear_span_ratio>> =
                        ret.elements.forces
        /\ \A i \in 1..Len(ret.value.coupling_beams) :
              LET e == ret.value.coupling_beams[i].val
                  beam == ret.elements.beams[i]
              IN  /\ DOMAIN e = {"beam_id", "x_position", "y_position", "length",
                                 "height", "axial_force", "shear_force", "moment",
                                 "shear_span_ratio"}
                  /\ <<e.beam_id, e.x_position, e.y_position, e.length, e.height>> =
                        <<beam.id, beam.x, beam.y, beam.length, beam.height>>
                  /\ <<e.axial_force, e.moment, e.shear_force, e.shear_span_ratio>> =
                        ret.elements.forces

\* The solver raises in the first pier's sum_forces: the call raises.
C22_SolverRaisesWitness ==
    /\ ret.method = "get_shear_wall_results"
    /\ ret.wall_id = "SW_X1"
    /\ HasKey(shear_walls, "SW_X1")
    /\ ret.elements.raises
    /\ Len(ret.elements.piers) = 1
    /\ ret.exc = "SolverError"

C22_UnknownWallWitness ==
    /\ ret.method = "get_shear_wall_results"
    /\ ret.wall_id = "nope"
    /\ Len(shear_walls) = 2
    /\ ret.exc = "ValueError"

-----------------------------------------------------------------------------
(* Result records.                                                           *)

NaturalCoords(corner_name) ==
    CASE corner_name = "i" -> <<-1, -1>>
      [] corner_name = "j" -> <<1, -1>>
      [] corner_name = "m" -> <<1, 1>>
      [] corner_name = "n" -> <<-1, 1>>

StressAt(point, plate, xi, eta, combo_name) ==
    /\ point.x = xi /\ point.y = eta
    /\ <<point.sx, point.sy, point.txy>> = SolverMembrane(plate, xi, eta, combo_name)

MomentAt(point, plate, xi, eta, combo_name) ==
    /\ point.x = xi /\ point.y = eta
    /\ <<point.mx, point.my, point.mxy>> = SolverMoment(plate, xi, eta, combo_name)

PlateRecordMatches(record, plate, combo_name) ==
    /\ record.load_combination = combo_name
    /\ record.plate_id = plate.name
    /\ record.element_type \in {"Plate", "Quad"}
    /\ record.element_type = "Plate" <=> (plate.type = Some("Rect"))
    /\ IF plate.has_membrane
       THEN /\ KeySeq(record.corner_stresses) = <<"i", "j", "m", "n">>
            /\ \A k \in 1..4 :
                  LET e == record.corner_stresses[k] IN
                  StressAt(e.val, plate, NaturalCoords(e.key)[1],
                           NaturalCoords(e.key)[2], combo_name)
            /\ record.center_stress.some
            /\ StressAt(record.center_stress.val, plate, 0, 0, combo_name)
       ELSE record.corner_stresses = <<>> /\ ~record.center_stress.some
    /\ IF plate.has_moment
       THEN /\ KeySeq(record.corner_moments) = <<"i", "j", "m", "n">>
            /\ \A k \in 1..4 :
                  LET e == record.corner_moments[k] IN
                  MomentAt(e.val, plate, NaturalCoords(e.key)[1],
                           NaturalCoords(e.key)[2], combo_name)
            /\ record.center_moment.some
            /\ MomentAt(record.center_moment.val, plate, 0, 0, combo_name)
       ELSE record.corner_moments = <<>> /\ ~record.center_moment.some

\* C23: the plate record create_plate_results_from_pynite returns holds, for
\* the combination asked, the corner results under 'i', 'j', 'm', 'n'
\* evaluated at (-1,-1), (1,-1), (1,1), (-1,1) and the center results at
\* (0,0); its element_type is 'Plate' exactly when the handle's type is
\* 'Rect' and 'Quad' otherwise; without a membrane evaluator corner_stresses
\* is empty and center_stress is None, and likewise for the moment evaluator.
C23_PlateRecords ==
    (ret.method = "create_plate_results_from_pynite" /\ ret.exc = "") =>
        /\ ret.value.some
        /\ PlateRecordMatches(ret.value.val, arg.pynite_plate, arg.combo_name)

C23_Witness ==
    /\ ret.method = "create_plate_results_from_pynite"
    /\ ret.exc = ""
    /\ arg.combo_name = "SLS"
    /\ arg.pynite_plate.type = Some("Rect")
    /\ ~arg.pynite_plate.has_membrane
    /\ arg.pynite_plate.has_moment
    /\ arg.pynite_plate.s = 40
    /\ ret.value.val.element_type = "Plate"
    /\ ret.value.val.corner_stresses = <<>>
    /\ Get(ret.value.val.corner_moments, "m").val.mx = 81
    /\ Get(ret.value.val.corner_moments, "m").val.mxy = 280

C23_QuadWitness ==
    /\ ret.method = "create_plate_results_from_pynite"
    /\ ret.exc = ""
    /\ arg.combo_name = "ULS_1"
    /\ arg.pynite_plate.type = NoRef
    /\ ret.value.val.element_type = "Quad"
    /\ ret.value.val.center_stress.some
    /\ ~ret.value.val.center_moment.some

\* A handle whose evaluators raise gives no record.
Aux23_RaisingHandle ==
    (ret.method = "create_plate_results_from_pynite") =>
        (ret.exc = "SolverError" <=> PlateRaises(arg.pynite_plate))

\* The results object exists from line 64 on.
ResultsConstructed ==
    pc \in {"combinations", "extracted", "summarised", "demonstrated", "done"}

\* The combinations stored so far in the results object, once it exists.
StoredResults ==
    IF ResultsConstructed THEN results.load_combination_results ELSE <<>>

\* C24: once the PyNiteResults record has been constructed, no later step of
\* the extraction workflow changes any of its fields or the contents of its
\* mappings.
C24_ResultsImmutable ==
    [][ResultsConstructed => (results' = results)]_vars

\* What the workflow does hold to: once run_analysis_and_extract_results has
\* returned, printing and demonstrating leave the results as they are.
Aux24_ReturnedResultsUnchanged ==
    [][(pc \in {"extracted", "summarised", "demonstrated"}) => (results' = results)]_vars

\* The peak moment of every stored combination, as the accessor reports it.
StoredMomentPeaks ==
    { get_max_member_moment_by_combo(results, StoredResults[c].key).val :
        c \in 1..Len(StoredResults) }

\* Combination names the accessor is asked for: the sample's and one more.
AccessorCombos == {"ULS_1", "ULS_2", "SLS", "Combo 1"}

\* For combination c of the returned results, the accessor's value is None
\* when c is not stored and otherwise the largest absolute moment extremum of
\* c's members, 0 without members.
AccessorIsPeak(c) ==
    LET value == get_max_member_moment_by_combo(results, c) IN
    IF ~HasKey(StoredResults, c)
    THEN ~value.some
    ELSE LET members == Get(StoredResults, c).val.member_results
             values == UNION { { Abs(members[i].val.moment_y.max_moment),
                                 Abs(members[i].val.moment_y.min_moment),
                                 Abs(members[i].val.moment_z.max_moment),
                                 Abs(members[i].val.moment_z.min_moment) } :
                               i \in 1..Len(members) }
         IN  /\ value.some
             /\ \A v \in values : v <= value.val
             /\ IF values = {} THEN value.val = 0 ELSE value.val \in values

WorkflowReturned == pc \in {"extracted", "summarised", "demonstrated", "done"}

\* C30: get_max_member_moment_by_combo(c) is None when c is not stored and
\* otherwise the largest absolute value among max_moment and min_moment of
\* moment_y and moment_z over the members of c (0.0 when there are none); and
\* the global_max_member_moment the extraction workflow computes equals the
\* maximum of get_max_member_moment_by_combo(c) over the stored combinations.
C30_GlobalMomentIsMaxOverCombos ==
    WorkflowReturned =>
        /\ \A c \in AccessorCombos : AccessorIsPeak(c)
        /\ results.global_max_member_moment.some
        /\ results.global_max_member_moment.val = MaxWith0(StoredMomentPeaks)

\* The accessor part of C30 on its own: it holds, also while the
\* combinations are being stored, and demonstrate_model_usage is handed the
\* peak of the first combination.
Aux30_AccessorIsPeak ==
    /\ ResultsConstructed => \A c \in AccessorCombos : AccessorIsPeak(c)
    /\ (ret.method = "demonstrate_model_usage" /\ ret.exc = "") =>
          /\ ret.max_moment_combo = get_max_member_moment_by_combo(results, "ULS_1")
          /\ ret.combo_name = "ULS_1"

\* What the workflow computes instead: the largest |max_moment| alone.
Aux30_GlobalMomentIsMaxOfMaxima ==
    WorkflowReturned =>
        /\ results.global_max_member_moment.some
        /\ LET lcr == results.load_combination_results
               maxima == UNION { UNION {
                   { Abs(lcr[c].val.member_results[i].val.moment_y.max_moment),
                     Abs(lcr[c].val.member_results[i].val.moment_z.max_moment) } :
                       i \in 1..Len(lcr[c].val.member_results) } :
                   c \in 1..Len(lcr) }
           IN  /\ \A v \in maxima : v <= results.global_max_member_moment.val
               /\ IF maxima = {} THEN results.global_max_member_moment.val = 0
                  ELSE results.global_max_member_moment.val \in maxima

\* A run where the two agree, and one where a stored |min_moment| exceeds
\* every |max_moment|.
Aux30_AgreeWitness ==
    /\ pc = "done"
    /\ results.global_max_member_moment.val = MaxWith0(StoredMomentPeaks)
    /\ results.global_max_member_moment.val > 0

Aux30_DisagreeWitness ==
    /\ pc = "done"
    /\ results.global_max_member_moment.val = 4
    /\ MaxWith0(StoredMomentPeaks) = 9

-----------------------------------------------------------------------------
(* Schema construction.                                                      *)

Supplied(name) == HasKey(arg, name)

\* The Python type an annotation names.
AnnotatedType(name) ==
    CASE name = "id" -> "int"
      [] name = "name" -> "str"
      [] name = "aux" -> "Any"
      [] OTHER -> "float"

\* A supplied value whose Python type is not the annotated one; None counts
\* as typed for the Optional annotations.
Mistyped(name) ==
    /\ Supplied(name)
    /\ AnnotatedType(name) # "Any"
    /\ Get(arg, name).val.type # AnnotatedType(name)
    /\ ~(Get(arg, name).val.type = "NoneType" /\ name \in SeqToSet(OptionalNames))

SomeFieldMistyped ==
    \E i \in 1..Len(MaterialFields) : Mistyped(MaterialFields[i].name)

SomePlainFieldMissing ==
    \E name \in {"name", "elasticity_modulus", "density", "poissons_ratio"} :
        ~Supplied(name)

\* C25: constructing a Material with its optional fields (shear_modulus,
\* yield_strength, ultimate_strength, thermal_expansion_coefficient) omitted
\* succeeds; a validation error is raised only when a required field is
\* missing or a field is mistyped.
C25_OptionalFieldsMayBeOmitted ==
    (ret.method = "Material" /\ ret.exc = "ValidationError")
        => (SomePlainFieldMissing \/ SomeFieldMistyped)

\* Every field declared without a default must be supplied: omitting any of
\* the nine, the Optional-annotated ones included, raises; supplying all nine
\* with values of the annotated types, None allowed for the Optional ones,
\* succeeds.
Aux25_NoDefaultMeansRequired ==
    (ret.method = "Material") =>
        /\ (\E i \in 1..9 : ~Supplied(MaterialFields[i].name))
              => ret.exc = "ValidationError"
        /\ ((\A i \in 1..9 : Supplied(MaterialFields[i].name)) /\ ~SomeFieldMistyped)
              => ret.exc = ""

\* Values of another type are accepted when they stand for a number the
\* annotated type can hold, and the instance holds the converted value; an id
\* with a fractional part is rejected.
Aux25_Conversions ==
    (ret.method = "Material" /\ Supplied("id")) =>
        /\ Get(arg, "id").val = PyFloat(5, 2) => ret.exc = "ValidationError"
        /\ (ret.exc = "" /\ Get(arg, "id").val = PyFloat(2, 1))
              => Get(ret.value, "id").val = PyInt(2)
        /\ (ret.exc = "" /\ Get(arg, "id").val = PyStr("12", Some(Z(12))))
              => Get(ret.value, "id").val = PyInt(12)
        /\ (ret.exc = "" /\ Supplied("density")
                /\ Get(arg, "density").val = PyInt(7850))
              => Get(ret.value, "density").val = PyFloat(7850, 1)
        /\ (Supplied("name") /\ Get(arg, "name").val.type # "str")
              => ret.exc = "ValidationError"

\* All four required fields supplied and well typed, id given, and an
\* Optional-annotated field left out: the construction raises.
Aux25_OmittedOptionalWitness ==
    /\ ret.method = "Material"
    /\ ret.exc = "ValidationError"
    /\ ~SomePlainFieldMissing
    /\ ~SomeFieldMistyped
    /\ Supplied("id")
    /\ ~Supplied("shear_modulus")

-----------------------------------------------------------------------------
(* Loads that reach the solver.                                              *)

\* C26: every surface pressure registered names a quad registered earlier in
\* the same translation; a Pressure whose ordinal designates a plate that was
\* skipped for not having 4 nodes registers no surface pressure and does not
\* end the translation.
C26_PressureNamesRegisteredQuad ==
    /\ \A i \in 1..Len(calls) :
          calls[i].op = "add_quad_surface_pressure" =>
              \E j \in 1..(i - 1) :
                  /\ calls[j].op = "add_quad"
                  /\ calls[j].name = calls[i].quad_name
    /\ (pc \in AfterLoads) =>
          \A i \in 1..Len(arg.area_loads) :
              LET pl == arg.area_loads[i] IN
              (/\ pl.plate_id \in 1..Len(arg.plates)
               /\ Len(arg.plates[pl.plate_id].nodes) # 4)
              => RegisteredBy("add_quad_surface_pressure", pl.key) = <<>>

\* C28: no point load is lost silently: once the loads are translated, every
\* PointLoad with a nonzero component has at least one registered load or at
\* least one warning printed, whether it references a node or a member.
C28_NoPointLoadLostSilently ==
    (pc \in AfterLoads) =>
        \A i \in 1..Len(arg.point_loads) :
            LET p == arg.point_loads[i] IN
            (NonZero(p.x_mag) \/ NonZero(p.y_mag) \/ NonZero(p.z_mag))
            => \/ \E k \in 1..Len(calls) :
                    /\ calls[k].op \in {"add_node_load", "add_member_pt_load"}
                    /\ calls[k].by = p.key
               \/ stdout # <<>>

-----------------------------------------------------------------------------
(* Reuse of one translator.                                                  *)

\* C27: after any translate_model call on a translator, whatever it
\* translated before, its state reflects only the Model just translated:
\* pynite_model holds only that Model's entities and the key set of
\* shear_walls equals the key set of that Model's shear_walls.
C27_StateReflectsLastModel ==
    [][(ret'.method = "translate_model" /\ ret'.n = ret.n + 1 /\ ret'.exc = "")
        => /\ pynite_model'.calls = TranslateOutcome(arg).calls
           /\ Keys(shear_walls') = Keys(arg.shear_walls)]_vars

\* The solver half of C27 on its own: it holds.
Aux27_FreshSolverPerTranslation ==
    [][(ret'.method = "translate_model" /\ ret'.n = ret.n + 1 /\ ret'.exc = "")
        => pynite_model'.calls = TranslateOutcome(arg).calls]_vars

-----------------------------------------------------------------------------
(* The results summary.                                                      *)

SolverCombos ==
    LET reg == Registered("add_load_combo")
    IN  IF reg = <<>> THEN <<"Combo 1">> ELSE [i \in 1..Len(reg) |-> reg[i].name]

\* The node's latest support definition restrains at least one DOF.
HasRestrainedDof(node_name) ==
    \E i \in 1..Len(calls) :
        /\ calls[i].op = "def_support" /\ calls[i].node_name = node_name
        /\ \A j \in (i + 1)..Len(calls) :
              ~(calls[j].op = "def_support" /\ calls[j].node_name = node_name)
        /\ TRUE \in {calls[i].support_DX, calls[i].support_DY, calls[i].support_DZ,
                     calls[i].support_RX, calls[i].support_RY, calls[i].support_RZ}

\* C29: get_results_summary on a translated model, analysed or not, returns
\* without raising; it goes over the solver's load combinations, or over
\* 'Combo 1' alone when the solver has none; 'nodes' has an entry for every
\* solver node, 'members' for every solver member, 'reactions' exactly for
\* the nodes with a restrained DOF; a node's per-combination records are
\* those of the combinations present in the node's displacement mapping (DX),
\* a reaction's those present in its reaction mapping (RxnFX), and a member
\* has a record for every combination.
C29_SummaryShape ==
    (ret.method = "get_results_summary" /\ pynite_model.created) =>
        LET present(n, guard) ==
                SelectSeq(SolverCombos, LAMBDA c : <<n, guard, c>> \in DOMAIN ret.held)
        IN
        /\ ret.exc = ""
        /\ KeySeq(ret.value.nodes) =
              [i \in 1..Len(Registered("add_node")) |-> Registered("add_node")[i].name]
        /\ KeySeq(ret.value.members) =
              [i \in 1..Len(Registered("add_member")) |-> Registered("add_member")[i].name]
        /\ Keys(ret.value.reactions) =
              {n \in Keys(ret.value.nodes) : HasRestrainedDof(n)}
        /\ \A i \in 1..Len(ret.value.nodes) :
              KeySeq(ret.value.nodes[i].val) = present(ret.value.nodes[i].key, "DX")
        /\ \A i \in 1..Len(ret.value.reactions) :
              KeySeq(ret.value.reactions[i].val) =
                 present(ret.value.reactions[i].key, "RxnFX")
        /\ \A i \in 1..Len(ret.value.members) :
              KeySeq(ret.value.members[i].val) = SolverCombos

\* translate_model, then get_results_summary with no analysis in between, on
\* the model with a restrained and an unrestrained support.
C29_Witness ==
    /\ ret.method = "get_results_summary"
    /\ ret.n = 2
    /\ ret.exc = ""
    /\ DOMAIN ret.held = {}
    /\ Len(Registered("def_support")) = 2
    /\ AnalysisCalls = <<>>
    /\ Len(ret.value.nodes) = 4
    /\ KeySeq(ret.value.reactions) = <<"1">>
    /\ ret.value.nodes[1].val = <<>>
    /\ KeySeq(ret.value.members[1].val) = <<"ULS_1", "SLS">>

C29_DefaultComboWitness ==
    /\ ret.method = "get_results_summary"
    /\ ret.exc = ""
    /\ Registered("add_load_combo") = <<>>
    /\ <<ret.value.nodes[1].key, "DX", "Combo 1">> \in DOMAIN ret.held
    /\ KeySeq(ret.value.nodes[1].val) = <<"Combo 1">>

\* A solver holding some displacements of some nodes for the first
\* combination only, and no RxnFX mapping: the first node has one record,
\* the second none, and no reaction has any.
C29_PartialMappingsWitness ==
    /\ ret.method = "get_results_summary"
    /\ ret.exc = ""
    /\ Len(ret.value.nodes) = 4
    /\ Len(ret.value.members) = 1
    /\ KeySeq(ret.value.members[1].val) = <<"ULS_1", "SLS">>
    /\ KeySeq(ret.value.nodes[1].val) = <<"ULS_1">>
    /\ ret.value.nodes[1].val[1].val.DX = 21
    /\ ret.value.nodes[1].val[1].val.DY = 0
    /\ ret.value.nodes[2].val = <<>>
    /\ <<"1", "RxnFZ", "ULS_1">> \in DOMAIN ret.held
    /\ KeySeq(ret.value.reactions) = <<"1">>
    /\ ret.value.reactions[1].val = <<>>

\* Every value of a node or reaction record is the one the solver's mapping
\* of that component holds for the combination, 0 when it holds none.
Aux29_RecordsHoldSolverValues ==
    (ret.method = "get_results_summary" /\ ret.exc = "") =>
        LET held(n, q, c) ==
                IF <<n, q, c>> \in DOMAIN ret.held THEN ret.held[<<n, q, c>>] ELSE 0
        IN  /\ \A i \in 1..Len(ret.value.nodes) :
                  \A k \in 1..Len(ret.value.nodes[i].val) :
                     LET rec == ret.value.nodes[i].val[k] IN
                     /\ DOMAIN rec.val = {"DX", "DY", "DZ", "RX", "RY", "RZ"}
                     /\ \A q \in DOMAIN rec.val :
                           rec.val[q] = held(ret.value.nodes[i].key, q, rec.key)
            /\ \A i \in 1..Len(ret.value.reactions) :
                  \A k \in 1..Len(ret.value.reactions[i].val) :
                     LET rec == ret.value.reactions[i].val[k] IN
                     /\ DOMAIN rec.val =
                           {"RxnFX", "RxnFY", "RxnFZ", "RxnMX", "RxnMY", "RxnMZ"}
                     /\ \A q \in DOMAIN rec.val :
                           rec.val[q] = held(ret.value.reactions[i].key, q, rec.key)

\* An analysed structure: the summary carries the solver's values.
Aux29_ValuesWitness ==
    /\ ret.method = "get_results_summary"
    /\ ret.exc = ""
    /\ Len(ret.value.nodes) = 4
    /\ KeySeq(ret.value.nodes[1].val) = <<"ULS_1", "SLS">>
    /\ KeySeq(ret.value.reactions) = <<"1">>
    /\ KeySeq(ret.value.reactions[1].val) = <<"ULS_1", "SLS">>
    /\ ret.value.nodes[1].val[1].val.DX = 21
    /\ ret.value.nodes[1].val[2].val.RZ = -26
    /\ ret.value.reactions[1].val[2].val.RxnFZ = -29

====
